---- MODULE Spec2Model ----
(***************************************************************************)
(* Model of the exchange contract of ref-exchange/src/lib.rs: the pool     *)
(* registry, the per-account token ledger, the AML-gated entry points      *)
(* (swap, add_liquidity, add_stable_liquidity), their callback,            *)
(* execute_actions, remove_liquidity and remove_liquidity_by_tokens.       *)
(*                                                                         *)
(* lib.rs only calls the pools (simple_pool.rs, stable_swap, pool.rs), the *)
(* ledger account (account_deposit.rs) and the token receiver; those files *)
(* are not part of the sources at hand, so their operators below follow    *)
(* the written specification (sections 4.2 to 4.4) and the values the unit *)
(* tests                                                                   *)
(* of lib.rs pin down (test_basics, test_roundtrip_swap).                  *)
(*                                                                         *)
(* A panic of the contract aborts the receipt and the host discards every  *)
(* write of that receipt.  Operators therefore return a record with an ok  *)
(* flag together with the state as written so far; the actions keep the    *)
(* written state only when ok.                                             *)
(*                                                                         *)
(* Token amounts are u128 in the program.  The model works on amounts far  *)
(* below any overflow, so checked arithmetic never fails here.             *)
(***************************************************************************)
EXTENDS Integers, Sequences, FiniteSets, TLC

----------------------------------------------------------------------------
(* Bounds of the model *)

\* at most this much of one token is ever deposited into the contract
MaxSupply == 6
\* the amount of one ft_on_transfer deposit
DepositUnit == 2
\* the amount of one ledger withdrawal
WithdrawUnit == 2
\* add_simple_pool is taken while fewer pools than this exist
MaxPools == 1
\* number of pools the pool-creation scenarios stop at
MaxRegistry == 3
\* promises (requests waiting for their AML callback) in flight at once
MaxPending == 1
\* largest reserve and largest trader balance of the single-call scenarios
MaxReserve == 5
\* largest reserve and largest amount of the round-trip scenarios
MaxRoundTrip == 20

\* no liquidity is added to a pool of this many shares or more
MaxShares == 150
\* stand-in for utils::INIT_SHARES_SUPPLY (10^24 in the program), scaled so
\* that products with reserves stay inside TLC's integers
INIT_SHARES_SUPPLY == 100

(* Program constants *)

\* utils::FEE_DIVISOR
FEE_DIVISOR == 10000
\* total fee of the pools the tests create: add_simple_pool(tokens, 25)
POOL_FEE == 25
\* Contract::new(accounts(0), 1600, 400, accounts(5), 5) in setup_contract
EXCHANGE_FEE == 1600
REFERRAL_FEE == 400
ACCEPTED_RISK_SCORE == 5
\* tokens of a stable pool of the model
N_COINS == 2
\* rounds a Newton iteration may take
MAX_ROUNDS == 256
\* amp_factor the stable pools are created with
AMP_FACTOR == 2

Users == {"u1", "u2"}
\* Contract.owner_id; the set of guardians stays empty
OWNER_ID == "owner"
\* env::current_account_id(): the exchange itself, share-registered in every pool
EXCHANGE_ID == "exchange"
Accts == Users \cup {EXCHANGE_ID}
\* "C" is a token no pool of the model lists
Tokens == {"A", "B", "C"}
PoolTokens == {"A", "B"}

\* Option::None of an optional argument
None == "None"
\* share balance of an account that is not share-registered in a pool
Unregistered == -1

----------------------------------------------------------------------------
(* Arithmetic helpers *)

Min(a, b) == IF a < b THEN a ELSE b

CeilDiv(a, b) == (a + b - 1) \div b

integer_sqrt(n) == CHOOSE r \in 0..n : r * r <= n /\ (r + 1) * (r + 1) > n

----------------------------------------------------------------------------
(* Ledger account (account_deposit.rs) *)

NoAccount == [registered |-> FALSE, tokens |-> [t \in Tokens |-> 0]]

\* Account::deposit: adds to the balance, registering the token lazily
account_deposit(account, token, amount) ==
    [account EXCEPT !.tokens[token] = @ + amount]

\* Account::withdraw: fails when the balance is below the amount
account_withdraw(account, token, amount) ==
    IF account.tokens[token] < amount
    THEN [ok |-> FALSE, err |-> "ERR22_NOT_ENOUGH_TOKENS", account |-> account]
    ELSE [ok |-> TRUE, err |-> "",
          account |-> [account EXCEPT !.tokens[token] = @ - amount]]

----------------------------------------------------------------------------
(* Simple pool (simple_pool.rs) *)

check_token_duplicates(tokens) ==
    \A i, j \in 1..Len(tokens) : i # j => tokens[i] # tokens[j]

SimplePool_new(tokens, fee) ==
    [kind |-> "SimplePool",
     token_account_ids |-> tokens,
     amounts |-> <<0, 0>>,
     total_fee |-> fee,
     shares_total_supply |-> 0,
     shares |-> [a \in Accts |-> Unregistered]]

\* StableSwapPool::new: a pool of the other kind, without liquidity
StableSwapPool_new(tokens, fee) ==
    [kind |-> "StableSwapPool",
     token_account_ids |-> tokens,
     amounts |-> [i \in DOMAIN tokens |-> 0],
     amp_factor |-> AMP_FACTOR,
     total_fee |-> fee,
     shares_total_supply |-> 0,
     shares |-> [a \in Accts |-> Unregistered]]

token_index(pool, token) ==
    IF pool.token_account_ids[1] = token THEN 1
    ELSE IF pool.token_account_ids[2] = token THEN 2
    ELSE 0

share_balance(pool, a) ==
    IF pool.shares[a] = Unregistered THEN 0 ELSE pool.shares[a]

\* Faulty variant of mint_shares: the total supply is not raised.
mint_shares_no_supply(pool, a, n) ==
    IF n = 0 THEN pool
    ELSE [pool EXCEPT !.shares[a] = share_balance(pool, a) + n]

\* SimplePool::mint_shares: nothing happens for 0 shares; otherwise the
\* receiver is registered on the fly
mint_shares(pool, a, n) ==
    IF n = 0 THEN pool
    ELSE [pool EXCEPT !.shares_total_supply = @ + n,
                      !.shares[a] = share_balance(pool, a) + n]

\* Faulty variant of internal_get_return: no fee, and the quotient rounded up.
internal_get_return_ceil(pool, i_in, amount_in, i_out) ==
    CeilDiv(amount_in * pool.amounts[i_out], pool.amounts[i_in] + amount_in)

\* out-given-in of section 4.2
internal_get_return(pool, i_in, amount_in, i_out) ==
    (amount_in * (FEE_DIVISOR - pool.total_fee) * pool.amounts[i_out])
      \div (FEE_DIVISOR * pool.amounts[i_in]
              + amount_in * (FEE_DIVISOR - pool.total_fee))

\* Shares issued to the exchange and to a share-registered referral for the
\* growth of sqrt(x*y); the divisor is the one test_basics pins down
\* (33336806279123620258 shares for its swap).
admin_fee_shares(total_supply, prev_invariant, new_invariant, fee) ==
    IF fee > 0 /\ (new_invariant - prev_invariant) * total_supply > 0
    THEN ((new_invariant - prev_invariant) * total_supply)
           \div ((new_invariant * FEE_DIVISOR) \div fee)
    ELSE 0

\* the referral is paid only when it is share-registered in the pool
mint_referral(pool, minted, referral_id, n) ==
    IF referral_id # None /\ pool.shares[referral_id] # Unregistered
    THEN mint_shares(minted, referral_id, n)
    ELSE minted

\* the end of SimplePool::swap: moved is the pool with the amounts exchanged
swap_mint_shares(pool, moved, admin_fee, prev_invariant, new_invariant) ==
    mint_referral(pool,
        mint_shares(moved, admin_fee.exchange_id,
            admin_fee_shares(pool.shares_total_supply, prev_invariant, new_invariant,
                             admin_fee.exchange_fee)),
        admin_fee.referral_id,
        admin_fee_shares(pool.shares_total_supply, prev_invariant, new_invariant,
                         admin_fee.referral_fee))

swap_amounts(pool, i_in, amount_in, i_out, amount_out, admin_fee) ==
    swap_mint_shares(pool,
        [pool EXCEPT !.amounts[i_in] = @ + amount_in,
                     !.amounts[i_out] = @ - amount_out],
        admin_fee,
        integer_sqrt(pool.amounts[i_in] * pool.amounts[i_out]),
        integer_sqrt((pool.amounts[i_in] + amount_in)
                       * (pool.amounts[i_out] - amount_out)))

swap_checked(pool, i_in, amount_in, i_out, min_amount_out, admin_fee, amount_out) ==
    IF amount_out < min_amount_out
    THEN [ok |-> FALSE, err |-> "ERR_MIN_AMOUNT", pool |-> pool,
          amount_out |-> amount_out]
    ELSE [ok |-> TRUE, err |-> "",
          pool |-> swap_amounts(pool, i_in, amount_in, i_out, amount_out, admin_fee),
          amount_out |-> amount_out]

swap_failed(pool, e) == [ok |-> FALSE, err |-> e, pool |-> pool, amount_out |-> 0]

----------------------------------------------------------------------------
(* Stable-swap pool (stable_swap), after section 4.3 of the specification. *)
(* The pools of the model hold two tokens of the target precision, so a    *)
(* c_amount is the token amount itself.                                    *)

Abs(a) == IF a < 0 THEN -a ELSE a

\* a Newton iteration that gave no value
compute_failed(e, round) ==
    [ok |-> FALSE, err |-> e, value |-> 0, prev |-> 0, rounds |-> round]

\* "D_prod = D ; for i in 0..N: D_prod = D_prod * D / (x[i] * N)"
d_prod(x, d) == (((d * d) \div (x[1] * N_COINS)) * d) \div (x[2] * N_COINS)

\* "D_next = (An * sum_x + N * D_prod) * D / ((An - 1) * D + (N+1) * D_prod)"
d_next(x, ann, d) ==
    ((ann * (x[1] + x[2]) + N_COINS * d_prod(x, d)) * d)
        \div ((ann - 1) * d + (N_COINS + 1) * d_prod(x, d))

\* Faulty variant of compute_d_from: after the last round the value reached
\* is returned although it has not settled.
RECURSIVE compute_d_from_silent(_, _, _, _, _)
compute_d_from_silent(x, ann, d, round, cap) ==
    IF (ann - 1) * d + (N_COINS + 1) * d_prod(x, d) = 0
    THEN compute_failed("ComputeDFailed", round)
    ELSE IF Abs(d_next(x, ann, d) - d) <= 1 \/ round >= cap
    THEN [ok |-> TRUE, err |-> "", value |-> d_next(x, ann, d), prev |-> d,
          rounds |-> round]
    ELSE compute_d_from_silent(x, ann, d_next(x, ann, d), round + 1, cap)

\* the rounds of compute-D from the value d on: round is the number of the
\* round about to run, cap the number of rounds allowed
RECURSIVE compute_d_from(_, _, _, _, _)
compute_d_from(x, ann, d, round, cap) ==
    IF round > cap THEN compute_failed("ComputeDFailed", cap)
    ELSE IF (ann - 1) * d + (N_COINS + 1) * d_prod(x, d) = 0
    THEN compute_failed("ComputeDFailed", round)
    ELSE IF Abs(d_next(x, ann, d) - d) <= 1
    THEN [ok |-> TRUE, err |-> "", value |-> d_next(x, ann, d), prev |-> d,
          rounds |-> round]
    ELSE compute_d_from(x, ann, d_next(x, ann, d), round + 1, cap)

\* compute-D with a cap on the rounds: starts from D = sum_x; a division by
\* a zero reserve fails the computation, and so does a reserve that a
\* subtraction took below zero
compute_d_capped(x, amp, cap) ==
    IF x[1] <= 0 \/ x[2] <= 0 THEN compute_failed("ComputeDFailed", 0)
    ELSE compute_d_from(x, amp * N_COINS, x[1] + x[2], 1, cap)

\* compute-D as the pool calls it
compute_d(x, amp) == compute_d_capped(x, amp, MAX_ROUNDS)

\* "y_next = (y^2 + c) / (2y + b - D)" with "b = S + D/An" and
\* "c = D^(N+1) / (N^N * P * An)"; for two tokens S = P = s, the other reserve
y_next(s, d, ann, y) ==
    (y * y + (d * d * d) \div (N_COINS * N_COINS * s * ann))
        \div (2 * y + s + (d \div ann) - d)

\* the rounds of compute-y from the value y on
RECURSIVE compute_y_from(_, _, _, _, _, _)
compute_y_from(s, d, ann, y, round, cap) ==
    IF round > cap THEN compute_failed("ComputeYFailed", cap)
    ELSE IF 2 * y + s + (d \div ann) - d <= 0
    THEN compute_failed("ComputeYFailed", round)
    ELSE IF Abs(y_next(s, d, ann, y) - y) <= 1
    THEN [ok |-> TRUE, err |-> "", value |-> y_next(s, d, ann, y), prev |-> y,
          rounds |-> round]
    ELSE compute_y_from(s, d, ann, y_next(s, d, ann, y), round + 1, cap)

\* compute-y with a cap on the rounds: starts from y = D
compute_y_capped(s, d, amp, cap) ==
    IF s = 0 THEN compute_failed("ComputeYFailed", 0)
    ELSE compute_y_from(s, d, amp * N_COINS, d, 1, cap)

\* compute-y as the pool calls it
compute_y(s, d, amp) == compute_y_capped(s, d, amp, MAX_ROUNDS)

\* shares that stand for an admin fee of admin_c in a pool of value d
stable_admin_shares(total_supply, admin_c, d) ==
    IF admin_c = 0 \/ d = 0 THEN 0 ELSE (total_supply * admin_c) \div d

\* "fee_c = dy_c * total_fee_bp / FEE_DIVISOR"
stable_trade_fee(pool, dy_c) == (dy_c * pool.total_fee) \div FEE_DIVISOR

\* "admin portion fee_c * admin_fee_bp / FEE_DIVISOR"
stable_admin_fee(admin_fee, fee_c) ==
    (fee_c * (admin_fee.exchange_fee + admin_fee.referral_fee)) \div FEE_DIVISOR

\* Faulty variant of stable_swap_reserves: the pool keeps no part of the fee.
stable_swap_reserves_no_fee(pool, i_in, amount_in, i_out, y, fee_c, admin_c) ==
    [i \in 1..N_COINS |-> IF i = i_in THEN pool.amounts[i] + amount_in ELSE y]

\* "Update x[k_out] = y + (fee_c - admin_fee_c), x[k_in] = x'[k_in]"
stable_swap_reserves(pool, i_in, amount_in, i_out, y, fee_c, admin_c) ==
    [i \in 1..N_COINS |->
        IF i = i_in THEN pool.amounts[i] + amount_in ELSE y + (fee_c - admin_c)]

\* the swap once dy_c is known: the user receives dy_c - fee_c, the admin
\* portion becomes shares of the exchange account
stable_swap_result(pool, i_in, amount_in, i_out, min_amount_out, admin_fee, d0, y, dy_c) ==
    IF dy_c - stable_trade_fee(pool, dy_c) < min_amount_out
    THEN swap_failed(pool, "ERR68_SLIPPAGE")
    ELSE [ok |-> TRUE, err |-> "",
          pool |-> mint_shares(
                     [pool EXCEPT !.amounts =
                         stable_swap_reserves(pool, i_in, amount_in, i_out, y,
                             stable_trade_fee(pool, dy_c),
                             stable_admin_fee(admin_fee, stable_trade_fee(pool, dy_c)))],
                     admin_fee.exchange_id,
                     stable_admin_shares(pool.shares_total_supply,
                         stable_admin_fee(admin_fee, stable_trade_fee(pool, dy_c)), d0)),
          amount_out |-> dy_c - stable_trade_fee(pool, dy_c)]

\* "dy_c = x[k_out] - y - 1"
stable_swap_out(pool, i_in, amount_in, i_out, min_amount_out, admin_fee, d0, y) ==
    IF ~y.ok THEN swap_failed(pool, y.err)
    ELSE IF pool.amounts[i_out] < y.value + 1 THEN swap_failed(pool, "ERR_INTEGER_OVERFLOW")
    ELSE stable_swap_result(pool, i_in, amount_in, i_out, min_amount_out, admin_fee,
                            d0, y.value, pool.amounts[i_out] - y.value - 1)

\* "compute D_0 = D(x); set x'[k_in] = x[k_in] + c_amount_in;
\*  compute y = solve_y(x', k_out, D_0)"
stable_swap_to(pool, i_in, amount_in, i_out, min_amount_out, admin_fee, d0) ==
    IF ~d0.ok THEN swap_failed(pool, d0.err)
    ELSE stable_swap_out(pool, i_in, amount_in, i_out, min_amount_out, admin_fee,
             d0.value,
             compute_y(pool.amounts[i_in] + amount_in, d0.value, pool.amp_factor))

\* StableSwapPool::swap: swaps are allowed only in a pool that has shares
stable_swap(pool, token_in, amount_in, token_out, min_amount_out, admin_fee) ==
    IF token_in = token_out THEN swap_failed(pool, "ERR_SAME_TOKEN")
    ELSE IF token_index(pool, token_in) = 0 \/ token_index(pool, token_out) = 0
    THEN swap_failed(pool, "ERR_MISSING_TOKEN")
    ELSE IF pool.shares_total_supply = 0 THEN swap_failed(pool, "ERR_ZERO_LIQUIDITY")
    ELSE stable_swap_to(pool, token_index(pool, token_in), amount_in,
                        token_index(pool, token_out), min_amount_out, admin_fee,
                        compute_d(pool.amounts, pool.amp_factor))

\* a liquidity operation of a stable pool that failed
stable_failed(pool, e) == [ok |-> FALSE, err |-> e, pool |-> pool, shares |-> 0]

\* "ideal_i = D_1 * x[i] / D_0; diff_i = |x'[i] - ideal_i|;
\*  fee_i_c = diff_i * total_fee_bp * N / (4 * (N - 1) * FEE_DIVISOR)"
stable_fee(pool, x1, d0, d1, i) ==
    (Abs(x1[i] - (d1 * pool.amounts[i]) \div d0) * pool.total_fee * N_COINS)
        \div (4 * (N_COINS - 1) * FEE_DIVISOR)

\* "Adjust x'[i] -= fee_i_c"
stable_after_fees(pool, x1, d0, d1) ==
    [i \in 1..N_COINS |-> x1[i] - stable_fee(pool, x1, d0, d1, i)]

\* the admin part of the fees of a liquidity operation
stable_liquidity_admin_fee(pool, x1, d0, d1, admin_fee) ==
    stable_admin_fee(admin_fee, stable_fee(pool, x1, d0, d1, 1))
        + stable_admin_fee(admin_fee, stable_fee(pool, x1, d0, d1, 2))

\* the first liquidity of a pool: "accept as-is, mint shares equal to D_1"
stable_add_initial(pool, sender_id, amounts, min_shares, d1) ==
    IF ~d1.ok THEN stable_failed(pool, d1.err)
    ELSE IF d1.value < min_shares THEN stable_failed(pool, "ERR68_SLIPPAGE")
    ELSE [ok |-> TRUE, err |-> "",
          pool |-> mint_shares([pool EXCEPT !.amounts = amounts], sender_id, d1.value),
          shares |-> d1.value]

\* "New shares minted to provider: total_shares * (D_2 - D_0) / D_0"; the
\* fee stays in the pool, the admin part becomes shares of the exchange
stable_add_minted(pool, sender_id, x1, min_shares, admin_fee, d0, d1, d2) ==
    IF ~d2.ok THEN stable_failed(pool, d2.err)
    ELSE IF d2.value < d0 THEN stable_failed(pool, "ERR_INTEGER_OVERFLOW")
    ELSE IF (pool.shares_total_supply * (d2.value - d0)) \div d0 < min_shares
    THEN stable_failed(pool, "ERR68_SLIPPAGE")
    ELSE [ok |-> TRUE, err |-> "",
          pool |-> mint_shares(
                     mint_shares([pool EXCEPT !.amounts = x1], sender_id,
                         (pool.shares_total_supply * (d2.value - d0)) \div d0),
                     admin_fee.exchange_id,
                     stable_admin_shares(pool.shares_total_supply,
                         stable_liquidity_admin_fee(pool, x1, d0, d1, admin_fee),
                         d2.value)),
          shares |-> (pool.shares_total_supply * (d2.value - d0)) \div d0]

\* "Compute D_1 = D(x')", then the fees and "D_2 = D(x')"
stable_add_fees(pool, sender_id, x1, min_shares, admin_fee, d0, d1) ==
    IF ~d1.ok THEN stable_failed(pool, d1.err)
    ELSE stable_add_minted(pool, sender_id, x1, min_shares, admin_fee, d0, d1.value,
             compute_d(stable_after_fees(pool, x1, d0, d1.value), pool.amp_factor))

\* "Let D_0 = D(x). Set x'[i] = x[i] + deposits_c[i]"
stable_add_to(pool, sender_id, amounts, min_shares, admin_fee, d0) ==
    IF ~d0.ok THEN stable_failed(pool, d0.err)
    ELSE stable_add_fees(pool, sender_id,
             [i \in 1..N_COINS |-> pool.amounts[i] + amounts[i]],
             min_shares, admin_fee, d0.value,
             compute_d([i \in 1..N_COINS |-> pool.amounts[i] + amounts[i]],
                       pool.amp_factor))

\* StableSwapPool::add_liquidity (imbalanced)
stable_add_liquidity(pool, sender_id, amounts, min_shares, admin_fee) ==
    IF pool.kind # "StableSwapPool" THEN stable_failed(pool, "not implemented")
    ELSE IF Len(amounts) # N_COINS THEN stable_failed(pool, "ERR_WRONG_TOKEN_COUNT")
    ELSE IF pool.shares_total_supply = 0
    THEN stable_add_initial(pool, sender_id, amounts, min_shares,
                            compute_d(amounts, pool.amp_factor))
    ELSE stable_add_to(pool, sender_id, amounts, min_shares, admin_fee,
                       compute_d(pool.amounts, pool.amp_factor))

\* "fail if shares > max_burn_shares"; the shares are burnt from the caller
stable_remove_burn(pool, sender_id, x1, max_burn_shares, admin_fee, d0, d1, burn) ==
    IF burn > max_burn_shares THEN stable_failed(pool, "ERR68_SLIPPAGE")
    ELSE IF burn > share_balance(pool, sender_id)
    THEN stable_failed(pool, "ERR_NOT_ENOUGH_SHARES")
    ELSE [ok |-> TRUE, err |-> "",
          pool |-> mint_shares(
                     [pool EXCEPT !.amounts = x1,
                                  !.shares_total_supply = @ - burn,
                                  !.shares[sender_id] = @ - burn],
                     admin_fee.exchange_id,
                     stable_admin_shares(pool.shares_total_supply - burn,
                         stable_liquidity_admin_fee(pool, x1, d0, d1, admin_fee), d0)),
          shares |-> burn]

\* "burn shares = total_shares * (D_0 - D_2) / D_0 (ceil)"
stable_remove_shares(pool, sender_id, x1, max_burn_shares, admin_fee, d0, d1, d2) ==
    IF ~d2.ok THEN stable_failed(pool, d2.err)
    ELSE IF d2.value > d0 THEN stable_failed(pool, "ERR_INTEGER_OVERFLOW")
    ELSE stable_remove_burn(pool, sender_id, x1, max_burn_shares, admin_fee, d0, d1,
             CeilDiv(pool.shares_total_supply * (d0 - d2.value), d0))

\* "compute D_1; apply the same per-token fee to x'; compute D_2"
stable_remove_fees(pool, sender_id, x1, max_burn_shares, admin_fee, d0, d1) ==
    IF ~d1.ok THEN stable_failed(pool, d1.err)
    ELSE stable_remove_shares(pool, sender_id, x1, max_burn_shares, admin_fee, d0,
             d1.value,
             compute_d(stable_after_fees(pool, x1, d0, d1.value), pool.amp_factor))

\* "compute D_0, set x'[i] = x[i] - amounts_c[i]"
stable_remove_from(pool, sender_id, amounts, max_burn_shares, admin_fee, d0) ==
    IF ~d0.ok THEN stable_failed(pool, d0.err)
    ELSE stable_remove_fees(pool, sender_id,
             [i \in 1..N_COINS |-> pool.amounts[i] - amounts[i]],
             max_burn_shares, admin_fee, d0.value,
             compute_d([i \in 1..N_COINS |-> pool.amounts[i] - amounts[i]],
                       pool.amp_factor))

\* StableSwapPool::remove_liquidity_by_tokens (imbalanced)
stable_remove_liquidity_by_tokens(pool, sender_id, amounts, max_burn_shares, admin_fee) ==
    IF pool.kind # "StableSwapPool" THEN stable_failed(pool, "not implemented")
    ELSE IF Len(amounts) # N_COINS THEN stable_failed(pool, "ERR_WRONG_TOKEN_COUNT")
    ELSE IF pool.shares[sender_id] = Unregistered
    THEN stable_failed(pool, "ERR_NO_SHARES")
    ELSE IF \E i \in 1..N_COINS : pool.amounts[i] < amounts[i]
    THEN stable_failed(pool, "ERR_INTEGER_OVERFLOW")
    ELSE stable_remove_from(pool, sender_id, amounts, max_burn_shares, admin_fee,
                            compute_d(pool.amounts, pool.amp_factor))

----------------------------------------------------------------------------
(* Simple pool: the swap and the liquidity operations *)

\* Faulty variant of pool_swap: a pool without reserves is not refused.
pool_swap_unfunded(pool, token_in, amount_in, token_out, min_amount_out, admin_fee) ==
    IF pool.kind # "SimplePool" THEN swap_failed(pool, "ERR_ZERO_LIQUIDITY")
    ELSE IF token_in = token_out THEN swap_failed(pool, "ERR_SAME_TOKEN")
    ELSE IF token_index(pool, token_in) = 0 \/ token_index(pool, token_out) = 0
    THEN swap_failed(pool, "ERR_MISSING_TOKEN")
    ELSE IF amount_in = 0 THEN swap_failed(pool, "ERR_ZERO_AMOUNT")
    ELSE swap_checked(pool, token_index(pool, token_in), amount_in,
                      token_index(pool, token_out), min_amount_out, admin_fee,
                      internal_get_return(pool, token_index(pool, token_in), amount_in,
                                          token_index(pool, token_out)))

\* Pool::swap: the swap of the pool's kind; below the kind test, SimplePool::swap
pool_swap(pool, token_in, amount_in, token_out, min_amount_out, admin_fee) ==
    IF pool.kind # "SimplePool"
    THEN stable_swap(pool, token_in, amount_in, token_out, min_amount_out, admin_fee)
    ELSE IF token_in = token_out THEN swap_failed(pool, "ERR_SAME_TOKEN")
    ELSE IF token_index(pool, token_in) = 0 \/ token_index(pool, token_out) = 0
    THEN swap_failed(pool, "ERR_MISSING_TOKEN")
    ELSE IF pool.amounts[token_index(pool, token_in)] = 0
            \/ pool.amounts[token_index(pool, token_out)] = 0
    THEN swap_failed(pool, "ERR_ZERO_LIQUIDITY")
    ELSE IF amount_in = 0 THEN swap_failed(pool, "ERR_ZERO_AMOUNT")
    ELSE swap_checked(pool, token_index(pool, token_in), amount_in,
                      token_index(pool, token_out), min_amount_out, admin_fee,
                      internal_get_return(pool, token_index(pool, token_in), amount_in,
                                          token_index(pool, token_out)))

\* SimplePool::get_return, and the view Contract::get_return on top of it: the
\* quote of a swap, with no state change
pool_get_return(pool, token_in, amount_in, token_out) ==
    internal_get_return(pool, token_index(pool, token_in), amount_in,
                        token_index(pool, token_out))

get_return(pls, pool_id, token_in, amount_in, token_out) ==
    pool_get_return(pls[pool_id + 1], token_in, amount_in, token_out)

liquidity_failed(pool, amounts, e) ==
    [ok |-> FALSE, err |-> e, pool |-> pool, amounts |-> amounts, shares |-> 0]

\* adds the amounts to the reserves and mints the shares
liquidity_added(pool, sender_id, used, shares) ==
    [ok |-> TRUE, err |-> "",
     pool |-> mint_shares(
                [pool EXCEPT !.amounts = <<@[1] + used[1], @[2] + used[2]>>],
                sender_id, shares),
     amounts |-> used,
     shares |-> shares]

\* Faulty variant of balanced_amounts: each amount is rounded down.
balanced_amounts_floor(pool, r) ==
    <<(r * pool.amounts[1]) \div pool.shares_total_supply,
      (r * pool.amounts[2]) \div pool.shares_total_supply>>

\* the balanced pair for r new shares: each amount is rounded up
balanced_amounts(pool, r) ==
    <<CeilDiv(r * pool.amounts[1], pool.shares_total_supply),
      CeilDiv(r * pool.amounts[2], pool.shares_total_supply)>>

\* SimplePool::add_liquidity: the balanced amounts replace the requested ones
pool_add_liquidity(pool, sender_id, amounts) ==
    IF pool.kind # "SimplePool" THEN liquidity_failed(pool, amounts, "not implemented")
    ELSE IF Len(amounts) # 2 THEN liquidity_failed(pool, amounts, "ERR_WRONG_TOKEN_COUNT")
    ELSE IF pool.shares_total_supply = 0
    THEN liquidity_added(pool, sender_id, amounts, INIT_SHARES_SUPPLY)
    ELSE IF pool.amounts[1] = 0 \/ pool.amounts[2] = 0
    THEN liquidity_failed(pool, amounts, "ERR_DIVISION_BY_ZERO")
    ELSE liquidity_added(pool, sender_id,
             balanced_amounts(pool,
                 Min((amounts[1] * pool.shares_total_supply) \div pool.amounts[1],
                     (amounts[2] * pool.shares_total_supply) \div pool.amounts[2])),
             Min((amounts[1] * pool.shares_total_supply) \div pool.amounts[1],
                 (amounts[2] * pool.shares_total_supply) \div pool.amounts[2]))

removal_failed(pool, e) ==
    [ok |-> FALSE, err |-> e, pool |-> pool, amounts |-> <<0, 0>>]

removal_checked(pool, sender_id, shares, min_amounts, out) ==
    IF out[1] < min_amounts[1] \/ out[2] < min_amounts[2]
    THEN removal_failed(pool, "ERR_MIN_AMOUNT")
    ELSE [ok |-> TRUE, err |-> "",
          pool |-> [pool EXCEPT !.amounts = <<@[1] - out[1], @[2] - out[2]>>,
                                !.shares_total_supply = @ - shares,
                                !.shares[sender_id] = @ - shares],
          amounts |-> out]

\* SimplePool::remove_liquidity: the account stays share-registered
pool_remove_liquidity(pool, sender_id, shares, min_amounts) ==
    IF Len(min_amounts) # 2 THEN removal_failed(pool, "ERR_WRONG_TOKEN_COUNT")
    ELSE IF pool.shares[sender_id] = Unregistered THEN removal_failed(pool, "ERR_NO_SHARES")
    ELSE IF pool.shares[sender_id] < shares
    THEN removal_failed(pool, "ERR_NOT_ENOUGH_SHARES")
    ELSE IF pool.shares_total_supply = 0
    THEN removal_failed(pool, "ERR_DIVISION_BY_ZERO")
    ELSE removal_checked(pool, sender_id, shares, min_amounts,
             <<(shares * pool.amounts[1]) \div pool.shares_total_supply,
               (shares * pool.amounts[2]) \div pool.shares_total_supply>>)

share_failed(pool, e) == [ok |-> FALSE, err |-> e, pool |-> pool]

\* SimplePool::share_register: a zero share balance for a new holder
share_register(pool, account_id) ==
    IF pool.shares[account_id] # Unregistered
    THEN share_failed(pool, "E14: LP already registered")
    ELSE [ok |-> TRUE, err |-> "", pool |-> [pool EXCEPT !.shares[account_id] = 0]]

\* Faulty variant of share_transfer: the sender keeps the shares it sends.
share_transfer_no_debit(pool, sender_id, receiver_id, amount) ==
    IF pool.shares[sender_id] = Unregistered THEN share_failed(pool, "ERR_NO_SHARES")
    ELSE IF pool.shares[sender_id] < amount
    THEN share_failed(pool, "ERR_NOT_ENOUGH_SHARES")
    ELSE IF pool.shares[receiver_id] = Unregistered
    THEN share_failed(pool, "ERR_RECEIVER_NOT_REGISTERED")
    ELSE [ok |-> TRUE, err |-> "",
          pool |-> [pool EXCEPT !.shares[receiver_id] = @ + amount]]

\* SimplePool::share_transfer: both holders must be share-registered
share_transfer(pool, sender_id, receiver_id, amount) ==
    IF pool.shares[sender_id] = Unregistered THEN share_failed(pool, "ERR_NO_SHARES")
    ELSE IF pool.shares[sender_id] < amount
    THEN share_failed(pool, "ERR_NOT_ENOUGH_SHARES")
    ELSE IF pool.shares[receiver_id] = Unregistered
    THEN share_failed(pool, "ERR_RECEIVER_NOT_REGISTERED")
    ELSE [ok |-> TRUE, err |-> "",
          pool |-> [pool EXCEPT !.shares[sender_id] = @ - amount,
                                !.shares[receiver_id] = @ + amount]]

----------------------------------------------------------------------------
(* Contract state *)

VARIABLES
    state,                \* RunningState
    exchange_fee,         \* Contract.exchange_fee
    referral_fee,         \* Contract.referral_fee
    accepted_risk_score,  \* Contract.accepted_risk_score
    pools,                \* Contract.pools: pool_id i is pools[i + 1]
    accounts,             \* Contract.accounts
    pending,              \* promises: accepted requests whose AML callback has not run
    deposited,            \* per token, everything ever credited by ft_on_transfer
    withdrawn,            \* per token, everything ever paid out by withdraw
    last                  \* outcome of the latest call

vars == <<state, exchange_fee, referral_fee, accepted_risk_score, pools, accounts,
          pending, deposited, withdrawn, last>>

\* absent amount_in of a SwapAction, and ActionResult::None
NoAmount == -1

----------------------------------------------------------------------------
(* Internal methods of the contract (lib.rs) *)

\* Faulty variant of internal_pool_swap_replace: the swapped pool is not
\* written back to the registry.
internal_pool_swap_no_replace(pls, pool_id, r) ==
    [ok |-> r.ok, err |-> r.err, pools |-> pls, amount_out |-> r.amount_out]

\* "self.pools.replace(pool_id, &pool); amount_out" once pool.swap returned
internal_pool_swap_replace(pls, pool_id, r) ==
    IF ~r.ok
    THEN [ok |-> FALSE, err |-> r.err, pools |-> pls, amount_out |-> r.amount_out]
    ELSE [ok |-> TRUE, err |-> "",
          pools |-> [pls EXCEPT ![pool_id + 1] = r.pool],
          amount_out |-> r.amount_out]

\* Faulty variant of internal_pool_swap: the pool is not told the action's
\* min_amount_out.
internal_pool_swap_no_min(pls, pool_id, token_in, amount_in, token_out, min_amount_out, referral_id) ==
    IF pool_id + 1 \notin DOMAIN pls
    THEN [ok |-> FALSE, err |-> "ERR_NO_POOL", pools |-> pls, amount_out |-> 0]
    ELSE internal_pool_swap_replace(pls, pool_id,
             pool_swap(pls[pool_id + 1], token_in, amount_in, token_out, 0,
                       [exchange_fee |-> exchange_fee,
                        exchange_id |-> EXCHANGE_ID,
                        referral_fee |-> referral_fee,
                        referral_id |-> referral_id]))

\* Faulty variant of internal_pool_swap: the pool swapped is the one in
\* storage at the start of the call, not the one earlier actions left.
internal_pool_swap_stored(pls, pool_id, token_in, amount_in, token_out, min_amount_out, referral_id) ==
    IF pool_id + 1 \notin DOMAIN pls
    THEN [ok |-> FALSE, err |-> "ERR_NO_POOL", pools |-> pls, amount_out |-> 0]
    ELSE internal_pool_swap_replace(pls, pool_id,
             pool_swap(pools[pool_id + 1], token_in, amount_in, token_out,
                       min_amount_out,
                       [exchange_fee |-> exchange_fee,
                        exchange_id |-> EXCHANGE_ID,
                        referral_fee |-> referral_fee,
                        referral_id |-> referral_id]))

\* Faulty variant of internal_pool_swap: with a referral, the referral takes
\* the place of the exchange in the admin fees.
internal_pool_swap_referral_first(pls, pool_id, token_in, amount_in, token_out, min_amount_out, referral_id) ==
    IF pool_id + 1 \notin DOMAIN pls
    THEN [ok |-> FALSE, err |-> "ERR_NO_POOL", pools |-> pls, amount_out |-> 0]
    ELSE internal_pool_swap_replace(pls, pool_id,
             pool_swap(pls[pool_id + 1], token_in, amount_in, token_out,
                       min_amount_out,
                       [exchange_fee |-> exchange_fee,
                        exchange_id |-> IF referral_id = None THEN EXCHANGE_ID
                                        ELSE referral_id,
                        referral_fee |-> referral_fee,
                        referral_id |-> referral_id]))

\* Contract::internal_pool_swap
internal_pool_swap(pls, pool_id, token_in, amount_in, token_out, min_amount_out, referral_id) ==
    IF pool_id + 1 \notin DOMAIN pls
    THEN [ok |-> FALSE, err |-> "ERR_NO_POOL", pools |-> pls, amount_out |-> 0]
    ELSE internal_pool_swap_replace(pls, pool_id,
             pool_swap(pls[pool_id + 1], token_in, amount_in, token_out,
                       min_amount_out,
                       [exchange_fee |-> exchange_fee,
                        exchange_id |-> EXCHANGE_ID,
                        referral_fee |-> referral_fee,
                        referral_id |-> referral_id]))

\* a panic inside internal_execute_action; step records what the action
\* was about to debit
action_failed(pls, account, amount_in, e) ==
    [ok |-> FALSE, err |-> e, pools |-> pls, account |-> account, result |-> NoAmount,
     step |-> [ok |-> FALSE, amount_in |-> amount_in, amount_out |-> 0]]

\* "account.deposit(&swap_action.token_out, amount_out)" and the result
action_deposit(pls, account, action, amount_in, s) ==
    IF ~s.ok THEN action_failed(pls, account, amount_in, s.err)
    ELSE [ok |-> TRUE, err |-> "",
          pools |-> s.pools,
          account |-> account_deposit(account, action.token_out, s.amount_out),
          result |-> s.amount_out,
          step |-> [ok |-> TRUE, amount_in |-> amount_in, amount_out |-> s.amount_out]]

\* Faulty variant of action_swap: the withdrawal is checked but the account
\* carried on is the one before it.
action_swap_no_debit(pls, account, referral_id, action, amount_in, w) ==
    IF ~w.ok THEN action_failed(pls, account, amount_in, w.err)
    ELSE action_deposit(pls, account, action, amount_in,
             internal_pool_swap(pls, action.pool_id, action.token_in, amount_in,
                                action.token_out, action.min_amount_out, referral_id))

\* Faulty variant of action_swap: a failed withdrawal does not stop the action.
action_swap_unchecked(pls, account, referral_id, action, amount_in, w) ==
    action_deposit(pls, w.account, action, amount_in,
        internal_pool_swap(pls, action.pool_id, action.token_in, amount_in,
                           action.token_out, action.min_amount_out, referral_id))

\* the pool swap once "account.withdraw(&swap_action.token_in, amount_in)" ran
action_swap(pls, account, referral_id, action, amount_in, w) ==
    IF ~w.ok THEN action_failed(pls, account, amount_in, w.err)
    ELSE action_deposit(pls, w.account, action, amount_in,
             internal_pool_swap(pls, action.pool_id, action.token_in, amount_in,
                                action.token_out, action.min_amount_out, referral_id))

\* the swap of amount_in; ActionResult::None.to_amount() panics
action_withdraw(pls, account, referral_id, action, amount_in) ==
    IF amount_in = NoAmount
    THEN action_failed(pls, account, amount_in, "ERR41_WRONG_ACTION_RESULT")
    ELSE action_swap(pls, account, referral_id, action, amount_in,
                     account_withdraw(account, action.token_in, amount_in))

\* Faulty variant of internal_execute_action: the previous result is taken
\* whenever there is one.
internal_execute_action_prev(pls, account, referral_id, action, prev_result) ==
    action_withdraw(pls, account, referral_id, action,
                    IF prev_result # NoAmount THEN prev_result
                    ELSE action.amount_in)

\* Contract::internal_execute_action: amount_in is the action's own, or else
\* the previous result
internal_execute_action(pls, account, referral_id, action, prev_result) ==
    action_withdraw(pls, account, referral_id, action,
                    IF action.amount_in # NoAmount THEN action.amount_in
                    ELSE prev_result)

\* Contract::internal_execute_actions: the loop over the actions.  trace
\* collects the step of every action that ran, the failing one included.
RECURSIVE internal_execute_actions(_, _, _, _, _, _)
RECURSIVE execute_next(_, _, _, _, _)

internal_execute_actions(pls, account, referral_id, actions, prev_result, trace) ==
    IF actions = <<>>
    THEN [ok |-> TRUE, err |-> "", pools |-> pls, account |-> account,
          result |-> prev_result, trace |-> trace]
    ELSE execute_next(pls, referral_id, actions, trace,
             internal_execute_action(pls, account, referral_id, Head(actions),
                                     prev_result))

\* Faulty variant of execute_next: the rest runs on the registry the head
\* started from.
execute_next_stale(pls, referral_id, actions, trace, r) ==
    IF ~r.ok
    THEN [ok |-> FALSE, err |-> r.err, pools |-> r.pools, account |-> r.account,
          result |-> NoAmount, trace |-> Append(trace, r.step)]
    ELSE internal_execute_actions(pls, r.account, referral_id, Tail(actions),
                                  r.result, Append(trace, r.step))

\* "result = self.internal_execute_action(account, referral_id, action, result)":
\* r is what the head of actions returned; the rest runs on what it left
execute_next(pls, referral_id, actions, trace, r) ==
    IF ~r.ok
    THEN [ok |-> FALSE, err |-> r.err, pools |-> r.pools, account |-> r.account,
          result |-> NoAmount, trace |-> Append(trace, r.step)]
    ELSE internal_execute_actions(r.pools, r.account, referral_id, Tail(actions),
                                  r.result, Append(trace, r.step))

\* Faulty variant of execute_actions_save: a failed action does not abort the
\* call, and what was written up to it is kept.
execute_actions_save_partial(accts, sender_id, r) ==
    [ok |-> TRUE, err |-> r.err, pools |-> r.pools,
     accounts |-> [accts EXCEPT ![sender_id] = r.account],
     result |-> r.result, trace |-> r.trace]

\* "self.internal_save_account(&sender_id, account); result": reached only
\* when no action panicked
execute_actions_save(accts, sender_id, r) ==
    IF ~r.ok
    THEN [ok |-> FALSE, err |-> r.err, pools |-> r.pools, accounts |-> accts,
          result |-> NoAmount, trace |-> r.trace]
    ELSE [ok |-> TRUE, err |-> "", pools |-> r.pools,
          accounts |-> [accts EXCEPT ![sender_id] = r.account],
          result |-> r.result, trace |-> r.trace]

call_failed(pls, accts, e) ==
    [ok |-> FALSE, err |-> e, pools |-> pls, accounts |-> accts, result |-> NoAmount,
     trace |-> <<>>]

\* Contract::execute_actions.  The whitelist check of a call without attached
\* deposit is not modelled: every call of the model attaches a deposit.
execute_actions(pls, accts, actions, referral_id, sender_id) ==
    IF state # "Running" THEN call_failed(pls, accts, "ERR51_CONTRACT_PAUSED")
    ELSE IF ~accts[sender_id].registered
    THEN call_failed(pls, accts, "ERR10_ACC_NOT_REGISTERED")
    ELSE execute_actions_save(accts, sender_id,
             internal_execute_actions(pls, accts[sender_id], referral_id, actions,
                                      NoAmount, <<>>))

\* ".to_amount()" of what execute_actions returned
swap_to_amount(r) ==
    IF r.ok /\ r.result = NoAmount
    THEN [r EXCEPT !.ok = FALSE, !.err = "ERR41_WRONG_ACTION_RESULT"]
    ELSE r

\* Contract::internal_swap_unchecked
internal_swap_unchecked(pls, accts, actions, referral_id, sender_id) ==
    swap_to_amount(execute_actions(pls, accts, actions, referral_id, sender_id))

\* Contract::internal_unwrap_or_default_account: a fresh account when the
\* sender has none; saving it creates the account
internal_unwrap_or_default_account(accts, sender_id) ==
    IF accts[sender_id].registered THEN accts[sender_id]
    ELSE [NoAccount EXCEPT !.registered = TRUE]

\* the loop "for i in 0..tokens.len() { deposits.withdraw(&tokens[i], amounts[i]) }"
RECURSIVE withdraw_all(_, _, _, _)
RECURSIVE withdraw_next(_, _, _, _)

\* Faulty variant of withdraw_next: a failed withdrawal does not stop the call.
withdraw_next_unchecked(tokens, amounts, i, w) ==
    withdraw_all(w.account, tokens, amounts, i + 1)

withdraw_all(account, tokens, amounts, i) ==
    IF i > Len(tokens) THEN [ok |-> TRUE, err |-> "", account |-> account]
    ELSE withdraw_next(tokens, amounts, i,
                       account_withdraw(account, tokens[i], amounts[i]))

withdraw_next(tokens, amounts, i, w) ==
    IF ~w.ok THEN w ELSE withdraw_all(w.account, tokens, amounts, i + 1)

\* the loop "for i in 0..tokens.len() { deposits.deposit(&tokens[i], amounts[i]) }"
RECURSIVE deposit_all(_, _, _, _)
deposit_all(account, tokens, amounts, i) ==
    IF i > Len(tokens) THEN account
    ELSE deposit_all(account_deposit(account, tokens[i], amounts[i]), tokens, amounts,
                     i + 1)

\* "for (amount, min_amount) in amounts.iter().zip(min_amounts.iter())": the
\* zip stops at the shorter list.  min_amounts is <<>> for Option::None and
\* <<list>> for Some(list).
min_amounts_met(amounts, min_amounts) ==
    min_amounts = <<>>
    \/ \A i \in 1..Min(Len(amounts), Len(min_amounts[1])) :
          amounts[i] >= min_amounts[1][i]

update_failed(pls, accts, e) ==
    [ok |-> FALSE, err |-> e, pools |-> pls, accounts |-> accts]

\* Faulty variant of add_liquidity_save: the pool is not written back.
add_liquidity_save_no_replace(pls, accts, pool_id, sender_id, pool, w) ==
    IF ~w.ok THEN update_failed(pls, accts, w.err)
    ELSE [ok |-> TRUE, err |-> "", pools |-> pls,
          accounts |-> [accts EXCEPT ![sender_id] = w.account]]

\* "self.internal_save_account(&sender_id, deposits);
\*  self.pools.replace(pool_id, &pool)"
add_liquidity_save(pls, accts, pool_id, sender_id, pool, w) ==
    IF ~w.ok THEN update_failed(pls, accts, w.err)
    ELSE [ok |-> TRUE, err |-> "",
          pools |-> [pls EXCEPT ![pool_id + 1] = pool],
          accounts |-> [accts EXCEPT ![sender_id] = w.account]]

\* Faulty variant of add_liquidity_debit: the ledger is debited the amounts
\* the caller asked for, not the balanced ones the pool took.
add_liquidity_debit_requested(pls, accts, pool_id, amounts, sender_id, min_amounts, a) ==
    IF ~a.ok THEN update_failed(pls, accts, a.err)
    ELSE IF ~min_amounts_met(a.amounts, min_amounts)
    THEN update_failed(pls, accts, "ERR_MIN_AMOUNT")
    ELSE add_liquidity_save(pls, accts, pool_id, sender_id, a.pool,
             withdraw_all(internal_unwrap_or_default_account(accts, sender_id),
                          a.pool.token_account_ids, amounts, 1))

\* the min_amounts check and the debit of the balanced amounts a.amounts
add_liquidity_debit(pls, accts, pool_id, amounts, sender_id, min_amounts, a) ==
    IF ~a.ok THEN update_failed(pls, accts, a.err)
    ELSE IF ~min_amounts_met(a.amounts, min_amounts)
    THEN update_failed(pls, accts, "ERR_MIN_AMOUNT")
    ELSE add_liquidity_save(pls, accts, pool_id, sender_id, a.pool,
             withdraw_all(internal_unwrap_or_default_account(accts, sender_id),
                          a.pool.token_account_ids, a.amounts, 1))

\* Contract::internal_add_liquidity_unchecked
internal_add_liquidity_unchecked(pls, accts, pool_id, amounts, sender_id, min_amounts, attached_deposit) ==
    IF attached_deposit = 0
    THEN update_failed(pls, accts, "Requires attached deposit of at least 1 yoctoNEAR")
    ELSE IF pool_id + 1 \notin DOMAIN pls THEN update_failed(pls, accts, "ERR_NO_POOL")
    ELSE add_liquidity_debit(pls, accts, pool_id, amounts, sender_id, min_amounts,
                             pool_add_liquidity(pls[pool_id + 1], sender_id, amounts))

\* "AdminFees::new(self.exchange_fee)": no referral
AdminFees_new(fee) ==
    [exchange_fee |-> fee, exchange_id |-> EXCHANGE_ID, referral_fee |-> 0,
     referral_id |-> None]

\* the debit of the requested amounts, "deposits.withdraw(&tokens[i], amounts[i])",
\* then the account and the pool are saved
add_stable_liquidity_debit(pls, accts, pool_id, amounts, sender_id, a) ==
    IF ~a.ok THEN update_failed(pls, accts, a.err)
    ELSE add_liquidity_save(pls, accts, pool_id, sender_id, a.pool,
             withdraw_all(internal_unwrap_or_default_account(accts, sender_id),
                          a.pool.token_account_ids, amounts, 1))

\* Contract::internal_add_stable_liquidity_unchecked
internal_add_stable_liquidity_unchecked(pls, accts, pool_id, amounts, min_shares, sender_id, attached_deposit) ==
    IF attached_deposit = 0
    THEN update_failed(pls, accts, "Requires attached deposit of at least 1 yoctoNEAR")
    ELSE IF pool_id + 1 \notin DOMAIN pls THEN update_failed(pls, accts, "ERR_NO_POOL")
    ELSE add_stable_liquidity_debit(pls, accts, pool_id, amounts, sender_id,
             stable_add_liquidity(pls[pool_id + 1], sender_id, amounts, min_shares,
                                  AdminFees_new(exchange_fee)))

\* the outcome of a remove_liquidity_by_tokens call, with the value returned
tokens_removed(ok, e, pls, accts, burn_shares) ==
    [ok |-> ok, err |-> e, pools |-> pls, accounts |-> accts, burn_shares |-> burn_shares]

\* Faulty variant of remove_by_tokens_credit: the ledger is credited one unit
\* less of every token asked for.
remove_by_tokens_credit_short(pls, accts, pool_id, amounts, sender_id, r) ==
    IF ~r.ok THEN tokens_removed(FALSE, r.err, pls, accts, 0)
    ELSE tokens_removed(TRUE, "", [pls EXCEPT ![pool_id + 1] = r.pool],
             [accts EXCEPT ![sender_id] =
                 deposit_all(internal_unwrap_or_default_account(accts, sender_id),
                             r.pool.token_account_ids,
                             [i \in DOMAIN amounts |-> IF amounts[i] = 0 THEN 0
                                                       ELSE amounts[i] - 1], 1)],
             r.shares)

\* "self.pools.replace(pool_id, &pool)", the credit of amounts[i] for every
\* token of the pool, and the save of the account
remove_by_tokens_credit(pls, accts, pool_id, amounts, sender_id, r) ==
    IF ~r.ok THEN tokens_removed(FALSE, r.err, pls, accts, 0)
    ELSE tokens_removed(TRUE, "", [pls EXCEPT ![pool_id + 1] = r.pool],
             [accts EXCEPT ![sender_id] =
                 deposit_all(internal_unwrap_or_default_account(accts, sender_id),
                             r.pool.token_account_ids, amounts, 1)],
             r.shares)

\* Contract::remove_liquidity_by_tokens
remove_liquidity_by_tokens(pls, accts, pool_id, amounts, max_burn_shares, sender_id, attached_deposit) ==
    IF attached_deposit # 1
    THEN tokens_removed(FALSE, "Requires attached deposit of exactly 1 yoctoNEAR",
                        pls, accts, 0)
    ELSE IF state # "Running" THEN tokens_removed(FALSE, "ERR_CONTRACT_PAUSED", pls, accts, 0)
    ELSE IF pool_id + 1 \notin DOMAIN pls
    THEN tokens_removed(FALSE, "ERR_NO_POOL", pls, accts, 0)
    ELSE remove_by_tokens_credit(pls, accts, pool_id, amounts, sender_id,
             stable_remove_liquidity_by_tokens(pls[pool_id + 1], sender_id, amounts,
                                               max_burn_shares,
                                               AdminFees_new(exchange_fee)))

\* Faulty variant of remove_liquidity_credit: the pool is not written back.
remove_liquidity_credit_no_replace(pls, accts, pool_id, sender_id, r) ==
    IF ~r.ok THEN update_failed(pls, accts, r.err)
    ELSE [ok |-> TRUE, err |-> "", pools |-> pls,
          accounts |-> [accts EXCEPT ![sender_id] =
                           deposit_all(internal_unwrap_or_default_account(accts, sender_id),
                                       r.pool.token_account_ids, r.amounts, 1)]]

\* Faulty variant of remove_liquidity_credit: an account whose share balance
\* the removal brought to zero loses its entry in the pool's shares.
remove_liquidity_credit_unregister(pls, accts, pool_id, sender_id, r) ==
    IF ~r.ok THEN update_failed(pls, accts, r.err)
    ELSE [ok |-> TRUE, err |-> "",
          pools |-> [pls EXCEPT ![pool_id + 1] =
                        IF r.pool.shares[sender_id] = 0
                        THEN [r.pool EXCEPT !.shares[sender_id] = Unregistered]
                        ELSE r.pool],
          accounts |-> [accts EXCEPT ![sender_id] =
                           deposit_all(internal_unwrap_or_default_account(accts, sender_id),
                                       r.pool.token_account_ids, r.amounts, 1)]]

\* "self.pools.replace(pool_id, &pool)" and the credit of the amounts returned
remove_liquidity_credit(pls, accts, pool_id, sender_id, r) ==
    IF ~r.ok THEN update_failed(pls, accts, r.err)
    ELSE [ok |-> TRUE, err |-> "",
          pools |-> [pls EXCEPT ![pool_id + 1] = r.pool],
          accounts |-> [accts EXCEPT ![sender_id] =
                           deposit_all(internal_unwrap_or_default_account(accts, sender_id),
                                       r.pool.token_account_ids, r.amounts, 1)]]

\* Contract::remove_liquidity (called with one yoctoNEAR attached)
remove_liquidity(pls, accts, pool_id, shares, min_amounts, sender_id) ==
    IF state # "Running" THEN update_failed(pls, accts, "ERR51_CONTRACT_PAUSED")
    ELSE IF pool_id + 1 \notin DOMAIN pls THEN update_failed(pls, accts, "ERR_NO_POOL")
    ELSE remove_liquidity_credit(pls, accts, pool_id, sender_id,
             pool_remove_liquidity(pls[pool_id + 1], sender_id, shares, min_amounts))

\* Faulty variant of internal_add_pool: the id returned is the length of the
\* list after the push.
internal_add_pool_len_after(pls, pool) ==
    [ok |-> TRUE, err |-> "", id |-> Len(pls) + 1,
     pools |-> Append(pls, [pool EXCEPT !.shares[EXCHANGE_ID] = 0])]

\* Contract::internal_add_pool: the exchange is share-registered at creation
internal_add_pool(pls, pool) ==
    [ok |-> TRUE, err |-> "", id |-> Len(pls),
     pools |-> Append(pls, [pool EXCEPT !.shares[EXCHANGE_ID] = 0])]

\* Faulty variant of add_simple_pool: the token count is checked before the
\* duplicates.
add_simple_pool_count_first(pls, tokens, fee) ==
    IF state # "Running"
    THEN [ok |-> FALSE, err |-> "ERR51_CONTRACT_PAUSED", id |-> 0, pools |-> pls]
    ELSE IF Len(tokens) # 2
    THEN [ok |-> FALSE, err |-> "ERR_SHOULD_HAVE_2_TOKENS", id |-> 0, pools |-> pls]
    ELSE IF ~check_token_duplicates(tokens)
    THEN [ok |-> FALSE, err |-> "ERR_TOKEN_DUPLICATES", id |-> 0, pools |-> pls]
    ELSE internal_add_pool(pls, SimplePool_new(tokens, fee))

\* Contract::add_simple_pool; SimplePool::new refuses token lists of a length
\* other than 2 (test_deny_single_token_pool, test_deny_too_many_tokens_pool)
add_simple_pool(pls, tokens, fee) ==
    IF state # "Running"
    THEN [ok |-> FALSE, err |-> "ERR51_CONTRACT_PAUSED", id |-> 0, pools |-> pls]
    ELSE IF ~check_token_duplicates(tokens)
    THEN [ok |-> FALSE, err |-> "ERR_TOKEN_DUPLICATES", id |-> 0, pools |-> pls]
    ELSE IF Len(tokens) # 2
    THEN [ok |-> FALSE, err |-> "ERR_SHOULD_HAVE_2_TOKENS", id |-> 0, pools |-> pls]
    ELSE internal_add_pool(pls, SimplePool_new(tokens, fee))

\* Contract::is_owner_or_guardians (owner.rs)
is_owner_or_guardians(caller) == caller = OWNER_ID

\* Contract::add_stable_swap_pool: allowed to the owner and the guardians; the
\* method does not call assert_contract_running
add_stable_swap_pool(pls, caller, tokens, fee) ==
    IF ~is_owner_or_guardians(caller)
    THEN [ok |-> FALSE, err |-> "ERR100_NOT_ALLOWED", id |-> 0, pools |-> pls]
    ELSE IF ~check_token_duplicates(tokens)
    THEN [ok |-> FALSE, err |-> "ERR_TOKEN_DUPLICATES", id |-> 0, pools |-> pls]
    ELSE internal_add_pool(pls, StableSwapPool_new(tokens, fee))

registry_failed(pls, e) == [ok |-> FALSE, err |-> e, pools |-> pls]

\* "self.pools.replace(pool_id, &pool)" once a share operation returned
share_replace(pls, pool_id, r) ==
    IF ~r.ok THEN registry_failed(pls, r.err)
    ELSE [ok |-> TRUE, err |-> "", pools |-> [pls EXCEPT ![pool_id + 1] = r.pool]]

\* Contract::mft_register of the share token ":pool_id" (multi_fungible_token.rs)
mft_register(pls, pool_id, account_id) ==
    IF state # "Running" THEN registry_failed(pls, "ERR51_CONTRACT_PAUSED")
    ELSE IF pool_id + 1 \notin DOMAIN pls THEN registry_failed(pls, "ERR_NO_POOL")
    ELSE share_replace(pls, pool_id, share_register(pls[pool_id + 1], account_id))

\* Faulty variant of mft_transfer: sender and receiver are not compared.
mft_transfer_unchecked(pls, pool_id, sender_id, receiver_id, amount) ==
    IF state # "Running" THEN registry_failed(pls, "ERR51_CONTRACT_PAUSED")
    ELSE IF pool_id + 1 \notin DOMAIN pls THEN registry_failed(pls, "ERR_NO_POOL")
    ELSE share_replace(pls, pool_id,
             share_transfer(pls[pool_id + 1], sender_id, receiver_id, amount))

\* Contract::mft_transfer of the share token ":pool_id" (multi_fungible_token.rs)
mft_transfer(pls, pool_id, sender_id, receiver_id, amount) ==
    IF state # "Running" THEN registry_failed(pls, "ERR51_CONTRACT_PAUSED")
    ELSE IF sender_id = receiver_id THEN registry_failed(pls, "E33: transfer to self")
    ELSE IF pool_id + 1 \notin DOMAIN pls THEN registry_failed(pls, "ERR_NO_POOL")
    ELSE share_replace(pls, pool_id,
             share_transfer(pls[pool_id + 1], sender_id, receiver_id, amount))

----------------------------------------------------------------------------
(* Inputs *)

SwapAction(pool_id, token_in, amount_in, token_out, min_amount_out) ==
    [pool_id |-> pool_id, token_in |-> token_in, amount_in |-> amount_in,
     token_out |-> token_out, min_amount_out |-> min_amount_out]

\* token lists offered to add_simple_pool
TokenLists ==
    {<<"A", "B">>, <<"A", "A">>, <<"A">>, <<"A", "B", "C">>, <<"A", "A", "B">>}

\* action lists of the swap requests
RequestActions ==
    {<<SwapAction(0, "A", 2, "B", 1)>>,
     <<SwapAction(0, "B", 2, "A", 1)>>,
     <<SwapAction(0, "A", 2, "B", 1), SwapAction(0, "B", NoAmount, "A", 1)>>}

\* token lists offered to add_stable_swap_pool, and its callers
StableTokenLists == {<<"A", "B">>, <<"A", "A">>}

Callers == {OWNER_ID, "u1"}

RunningStates == {"Running", "Paused"}

\* share amounts of the transfers
TransferShares == {INIT_SHARES_SUPPLY}

LiquidityAmounts == {<<4, 4>>, <<2, 4>>, <<0, 4>>}

MinAmounts == {<<>>}

RemoveShares == {INIT_SHARES_SUPPLY}

\* scores the owner sets with update_accepted_risk_score
RiskScores == {2, ACCEPTED_RISK_SCORE, 9}

\* caps on the rounds under which the Newton iterations are examined: the
\* program's, and two that the reserves of the scenario exhaust
RoundCaps == {1, 2, MAX_ROUNDS}

\* what the AML contract's promise resolves to
AmlResults ==
    {[status |-> "Failed", category |-> "", risk |-> 0],
     [status |-> "Successful", category |-> "None", risk |-> 9],
     [status |-> "Successful", category |-> "Scam", risk |-> 3],
     [status |-> "Successful", category |-> "Scam", risk |-> 9]}

----------------------------------------------------------------------------
(* Actions *)

\* what a call leaves in storage: a panic rolls the receipt's writes back
Commit(r) ==
    /\ pools' = IF r.ok THEN r.pools ELSE pools
    /\ accounts' = IF r.ok THEN r.accounts ELSE accounts

Init ==
    /\ state = "Running"
    /\ exchange_fee = EXCHANGE_FEE
    /\ referral_fee = REFERRAL_FEE
    /\ accepted_risk_score = ACCEPTED_RISK_SCORE
    /\ pools = <<>>
    /\ accounts = [u \in Users |-> NoAccount]
    /\ pending = {}
    /\ deposited = [t \in Tokens |-> 0]
    /\ withdrawn = [t \in Tokens |-> 0]
    /\ last = [op |-> "new", ok |-> TRUE, err |-> ""]

\* storage_deposit: registers the caller's account
StorageDeposit(u) ==
    /\ state = "Running"
    /\ ~accounts[u].registered
    /\ accounts' = [accounts EXCEPT ![u].registered = TRUE]
    /\ UNCHANGED <<state, exchange_fee, referral_fee, accepted_risk_score, pools,
                   pending, deposited, withdrawn, last>>

\* ft_on_transfer: the ledger deposit of a token transferred to the contract
FtOnTransfer(u, t) ==
    /\ state = "Running"
    /\ accounts[u].registered
    /\ deposited[t] + DepositUnit <= MaxSupply
    /\ accounts' = [accounts EXCEPT ![u] = account_deposit(@, t, DepositUnit)]
    /\ deposited' = [deposited EXCEPT ![t] = @ + DepositUnit]
    /\ UNCHANGED <<state, exchange_fee, referral_fee, accepted_risk_score, pools,
                   pending, withdrawn, last>>

\* withdraw: the ledger withdrawal, paid out to the caller
Withdraw(u, t) ==
    /\ state = "Running"
    /\ accounts[u].registered
    /\ account_withdraw(accounts[u], t, WithdrawUnit).ok
    /\ accounts' = [accounts EXCEPT
                       ![u] = account_withdraw(@, t, WithdrawUnit).account]
    /\ withdrawn' = [withdrawn EXCEPT ![t] = @ + WithdrawUnit]
    /\ UNCHANGED <<state, exchange_fee, referral_fee, accepted_risk_score, pools,
                   pending, deposited, last>>

AddSimplePool(tokens) ==
    /\ Len(pools) < MaxPools
    /\ pools' = add_simple_pool(pools, tokens, POOL_FEE).pools
    /\ UNCHANGED <<state, exchange_fee, referral_fee, accepted_risk_score, accounts,
                   pending, deposited, withdrawn, last>>

AddStableSwapPool(caller, tokens) ==
    /\ Len(pools) < MaxPools
    /\ pools' = add_stable_swap_pool(pools, caller, tokens, POOL_FEE).pools
    /\ UNCHANGED <<state, exchange_fee, referral_fee, accepted_risk_score, accounts,
                   pending, deposited, withdrawn, last>>

\* Contract::change_state (owner.rs): the owner pauses and resumes the contract
ChangeState(caller, new_state) ==
    /\ is_owner_or_guardians(caller)
    /\ state # new_state
    /\ state' = new_state
    /\ UNCHANGED <<exchange_fee, referral_fee, accepted_risk_score, pools, accounts,
                   pending, deposited, withdrawn, last>>

MftRegister(u, pool_id) ==
    /\ pools' = mft_register(pools, pool_id, u).pools
    /\ UNCHANGED <<state, exchange_fee, referral_fee, accepted_risk_score, accounts,
                   pending, deposited, withdrawn, last>>

MftTransfer(sender_id, pool_id, receiver_id, amount) ==
    /\ pools' = mft_transfer(pools, pool_id, sender_id, receiver_id, amount).pools
    /\ UNCHANGED <<state, exchange_fee, referral_fee, accepted_risk_score, accounts,
                   pending, deposited, withdrawn, last>>

\* Contract::update_accepted_risk_score
UpdateAcceptedRiskScore(caller, score) ==
    /\ state = "Running"
    /\ is_owner_or_guardians(caller)
    /\ accepted_risk_score' = score
    /\ UNCHANGED <<state, exchange_fee, referral_fee, pools, accounts, pending,
                   deposited, withdrawn, last>>

\* Contract::swap: the request is accepted and waits for the AML answer
Swap(u, actions, referral_id) ==
    /\ Cardinality(pending) < MaxPending
    /\ state = "Running"
    /\ Len(actions) # 0
    /\ pending' = pending \cup {[op |-> "Swap", sender_id |-> u, actions |-> actions,
                                 referral_id |-> referral_id]}
    /\ UNCHANGED <<state, exchange_fee, referral_fee, accepted_risk_score, pools,
                   accounts, deposited, withdrawn, last>>

\* Contract::add_liquidity: likewise
AddLiquidity(u, pool_id, amounts, min_amounts, attached_deposit) ==
    /\ Cardinality(pending) < MaxPending
    /\ state = "Running"
    /\ pending' = pending \cup {[op |-> "AddLiquidity", sender_id |-> u,
                                 pool_id |-> pool_id, amounts |-> amounts,
                                 min_amounts |-> min_amounts,
                                 attached_deposit |-> attached_deposit]}
    /\ UNCHANGED <<state, exchange_fee, referral_fee, accepted_risk_score, pools,
                   accounts, deposited, withdrawn, last>>

\* Contract::aml_operation: what the callback does with the operation
aml_operation(operation, sender_id, is_aml_allowed) ==
    IF ~is_aml_allowed THEN update_failed(pools, accounts, "ERR_AML_NOT_ALLOWED")
    ELSE IF operation.op = "Swap"
    THEN internal_swap_unchecked(pools, accounts, operation.actions,
                                 operation.referral_id, sender_id)
    ELSE internal_add_liquidity_unchecked(pools, accounts, operation.pool_id,
                                          operation.amounts, sender_id,
                                          operation.min_amounts,
                                          operation.attached_deposit)

\* Faulty variant of callback_aml_operation: the risk is compared with the
\* score the contract was created with.
callback_aml_operation_initial_score(operation, promise_result) ==
    IF promise_result.status = "Failed"
    THEN update_failed(pools, accounts, "ERR_AML_CALL_FAILED")
    ELSE aml_operation(operation, operation.sender_id,
                       IF promise_result.category = "None" THEN TRUE
                       ELSE promise_result.risk <= ACCEPTED_RISK_SCORE)

\* Contract::callback_aml_operation
callback_aml_operation(operation, promise_result) ==
    IF promise_result.status = "Failed"
    THEN update_failed(pools, accounts, "ERR_AML_CALL_FAILED")
    ELSE aml_operation(operation, operation.sender_id,
                       IF promise_result.category = "None" THEN TRUE
                       ELSE promise_result.risk <= accepted_risk_score)

CallbackAmlOperation(operation, promise_result) ==
    /\ operation \in pending
    /\ pending' = pending \ {operation}
    /\ Commit(callback_aml_operation(operation, promise_result))
    /\ UNCHANGED <<state, exchange_fee, referral_fee, accepted_risk_score, deposited,
                   withdrawn, last>>

RemoveLiquidity(u, pool_id, shares, min_amounts) ==
    /\ Commit(remove_liquidity(pools, accounts, pool_id, shares, min_amounts, u))
    /\ UNCHANGED <<state, exchange_fee, referral_fee, accepted_risk_score, pending,
                   deposited, withdrawn, last>>

\* a direct call of the public method remove_liquidity_by_tokens, with one
\* yoctoNEAR attached
RemoveLiquidityByTokens(u, pool_id, amounts, max_burn_shares) ==
    /\ Commit(remove_liquidity_by_tokens(pools, accounts, pool_id, amounts,
                                         max_burn_shares, u, 1))
    /\ UNCHANGED <<state, exchange_fee, referral_fee, accepted_risk_score, pending,
                   deposited, withdrawn, last>>

\* a direct call of the public method execute_actions
ExecuteActions(sender_id, actions, referral_id) ==
    /\ Commit(execute_actions(pools, accounts, actions, referral_id, sender_id))
    /\ UNCHANGED <<state, exchange_fee, referral_fee, accepted_risk_score, pending,
                   deposited, withdrawn, last>>

Next ==
    \/ \E u \in Users : StorageDeposit(u)
    \/ \E u \in Users, t \in PoolTokens : FtOnTransfer(u, t)
    \/ \E u \in Users, t \in PoolTokens : Withdraw(u, t)
    \/ \E tokens \in TokenLists : AddSimplePool(tokens)
    \/ \E u \in Users, actions \in RequestActions, referral_id \in {None} :
          Swap(u, actions, referral_id)
    \/ \E u \in Users, amounts \in LiquidityAmounts, min_amounts \in MinAmounts,
          attached_deposit \in {1} :
          AddLiquidity(u, 0, amounts, min_amounts, attached_deposit)
    \/ \E operation \in pending, promise_result \in AmlResults :
          CallbackAmlOperation(operation, promise_result)
    \/ \E u \in Users, shares \in RemoveShares, min_amounts \in {<<0, 0>>, <<1, 1>>} :
          RemoveLiquidity(u, 0, shares, min_amounts)
    \/ \E u \in Users, actions \in RequestActions :
          ExecuteActions(u, actions, None)

Spec == Init /\ [][Next]_vars

----------------------------------------------------------------------------
(* Single-call scenarios.  The contract is in a state it reaches by          *)
(* storage_deposit of u1 and u2, ft_on_transfer deposits, add_simple_pool    *)
(* and a first add_liquidity of u1; then one call of execute_actions is      *)
(* made and logged in last together with the state it started from.         *)

NoCall == [op |-> "none"]

\* the registry after add_simple_pool(<<A, B>>) and u1's first add_liquidity(<<x, y>>)
FundedAccounts(u, a, b) ==
    [v \in Users |->
        [registered |-> TRUE,
         tokens |-> [t \in Tokens |->
                       IF v = u /\ t = "A" THEN a
                       ELSE IF v = u /\ t = "B" THEN b ELSE 0]]]

FundedPools(x, y) ==
    internal_add_liquidity_unchecked(
        internal_add_pool(<<>>, SimplePool_new(<<"A", "B">>, POOL_FEE)).pools,
        FundedAccounts("u1", x, y), 0, <<x, y>>, "u1", <<>>, 1).pools

ScenarioInit(x, y, a, b) ==
    /\ state = "Running"
    /\ exchange_fee = EXCHANGE_FEE
    /\ referral_fee = REFERRAL_FEE
    /\ accepted_risk_score = ACCEPTED_RISK_SCORE
    /\ pools = FundedPools(x, y)
    /\ accounts = FundedAccounts("u2", a, b)
    /\ pending = {}
    /\ deposited = [t \in Tokens |-> IF t = "A" THEN x + a ELSE IF t = "B" THEN y + b ELSE 0]
    /\ withdrawn = [t \in Tokens |-> 0]
    /\ last = NoCall

\* the call's arguments, the state it started from and what it returned
CallLog(sender_id, actions, referral_id, r) ==
    [op |-> "execute_actions", sender_id |-> sender_id, actions |-> actions,
     referral_id |-> referral_id, pools |-> pools, accounts |-> accounts,
     ok |-> r.ok, err |-> r.err, result |-> r.result, trace |-> r.trace]

LoggedCall(sender_id, actions, referral_id, r) ==
    /\ Commit(r)
    /\ last' = CallLog(sender_id, actions, referral_id, r)

LoggedExecuteActions(sender_id, actions, referral_id) ==
    /\ last = NoCall
    /\ LoggedCall(sender_id, actions, referral_id,
                  execute_actions(pools, accounts, actions, referral_id, sender_id))
    /\ UNCHANGED <<state, exchange_fee, referral_fee, accepted_risk_score, pending,
                   deposited, withdrawn>>

\* one swap action of any shape
SingleActions ==
    {<<SwapAction(p, ti, a, to, m)>> :
        p \in {0, 1}, ti \in Tokens, a \in {NoAmount, 0, 1, 2, 3, 5}, to \in Tokens,
        m \in {0, 1, 2}}

\* a successful-looking first swap followed by a second action of any shape
PairActions ==
    {<<first, SwapAction(p, tt[1], a, tt[2], m)>> :
        first \in {SwapAction(0, "A", 2, "B", 1), SwapAction(0, "A", 3, "B", 1),
                   SwapAction(0, "A", 5, "B", 1), SwapAction(0, "B", 2, "A", 1)},
        p \in {0, 1},
        tt \in {<<"B", "A">>, <<"A", "B">>, <<"B", "C">>, <<"C", "A">>, <<"A", "A">>},
        a \in {NoAmount, 1, 4},
        m \in {1, 3}}

InitSwap ==
    \E x, y \in 1..MaxReserve, a \in {2, MaxReserve}, b \in {0, 2} :
        ScenarioInit(x, y, a, b)

NextSwap ==
    \/ \E u \in Users, actions \in SingleActions, referral_id \in {None, "u1"} :
          LoggedExecuteActions(u, actions, referral_id)
    \/ \E u \in Users, actions \in PairActions :
          LoggedExecuteActions(u, actions, None)

SpecSwap == InitSwap /\ [][NextSwap]_vars

\* round trips: amount_in of A to B and the whole output back to A
RoundTripActions ==
    {<<SwapAction(0, "A", dx, "B", m[1]), SwapAction(0, "B", NoAmount, "A", m[2])>> :
        dx \in 1..MaxRoundTrip, m \in {<<0, 0>>, <<1, 1>>}}

InitRoundTrip ==
    \E x, y \in 1..MaxRoundTrip : ScenarioInit(x, y, MaxRoundTrip, 0)

NextRoundTrip ==
    \E actions \in RoundTripActions : LoggedExecuteActions("u2", actions, None)

SpecRoundTrip == InitRoundTrip /\ [][NextRoundTrip]_vars

\* liquidity calls: add_liquidity as the AML callback runs it, and
\* remove_liquidity; an add may follow a successful add, a remove ends the run
\* and keeps the log of the call before it
ScenarioAmounts == {<<a0, a1>> : a0 \in {0, 2, 5}, a1 \in {0, 2, 5}}

\* None, Some of a list with one minimum per token, Some of a shorter list
ScenarioMinAmounts == {<<>>, <<<<2, 2>>>>, <<<<2>>>>}

ScenarioFunds == {1, MaxSupply}

\* the shares of an account, 0 when it is not share-registered
SharesOf(pool, account_id) ==
    IF pool.shares[account_id] = Unregistered THEN 0 ELSE pool.shares[account_id]

AddLog(sender_id, pool_id, amounts, min_amounts, r) ==
    [op |-> "add_liquidity", sender_id |-> sender_id, pool_id |-> pool_id,
     amounts |-> amounts, min_amounts |-> min_amounts, pools |-> pools,
     accounts |-> accounts, ok |-> r.ok, err |-> r.err]

LoggedAddLiquidity(sender_id, pool_id, amounts, min_amounts) ==
    /\ last = NoCall \/ (last.op = "add_liquidity" /\ last.ok)
    /\ pools[1].shares_total_supply < MaxShares
    /\ Commit(internal_add_liquidity_unchecked(pools, accounts, pool_id, amounts,
                                               sender_id, min_amounts, 1))
    /\ last' = AddLog(sender_id, pool_id, amounts, min_amounts,
                      internal_add_liquidity_unchecked(pools, accounts, pool_id, amounts,
                                                       sender_id, min_amounts, 1))
    /\ UNCHANGED <<state, exchange_fee, referral_fee, accepted_risk_score, pending,
                   deposited, withdrawn>>

RemoveLog(sender_id, pool_id, shares, min_amounts, r) ==
    [op |-> "remove_liquidity", sender_id |-> sender_id, pool_id |-> pool_id,
     shares |-> shares, min_amounts |-> min_amounts, pools |-> pools,
     accounts |-> accounts, ok |-> r.ok, err |-> r.err, prev |-> last]

LoggedRemoveLiquidity(sender_id, pool_id, shares, min_amounts) ==
    /\ last = NoCall \/ (last.op = "add_liquidity" /\ last.ok)
    /\ Commit(remove_liquidity(pools, accounts, pool_id, shares, min_amounts, sender_id))
    /\ last' = RemoveLog(sender_id, pool_id, shares, min_amounts,
                         remove_liquidity(pools, accounts, pool_id, shares, min_amounts,
                                          sender_id))
    /\ UNCHANGED <<state, exchange_fee, referral_fee, accepted_risk_score, pending,
                   deposited, withdrawn>>

\* the shares the logged add minted to its sender
Minted ==
    SharesOf(pools[last.pool_id + 1], last.sender_id)
        - SharesOf(last.pools[last.pool_id + 1], last.sender_id)

\* the sender of the logged add removes exactly the shares it was minted
RemoveMinted(min_amounts) ==
    /\ last # NoCall
    /\ last.pool_id = 0
    /\ LoggedRemoveLiquidity(last.sender_id, last.pool_id, Minted, min_amounts)

\* share amounts of the other removals
ScenarioShares ==
    {INIT_SHARES_SUPPLY \div 2, INIT_SHARES_SUPPLY, 2 * INIT_SHARES_SUPPLY}

InitLiquidity ==
    \E x, y \in 1..MaxReserve, a, b \in ScenarioFunds : ScenarioInit(x, y, a, b)

NextLiquidity ==
    \/ \E u \in Users, pool_id \in {0, 1}, amounts \in ScenarioAmounts,
          min_amounts \in ScenarioMinAmounts :
          LoggedAddLiquidity(u, pool_id, amounts, min_amounts)
    \/ \E u \in Users, pool_id \in {0, 1}, shares \in ScenarioShares,
          min_amounts \in {<<0, 0>>, <<1, 3>>} :
          LoggedRemoveLiquidity(u, pool_id, shares, min_amounts)
    \/ \E min_amounts \in {<<0, 0>>, <<1, 3>>} : RemoveMinted(min_amounts)

SpecLiquidity == InitLiquidity /\ [][NextLiquidity]_vars

\* administration: the accounts are registered and funded, and the owner
\* pauses and resumes the contract and creates stable pools between the calls
\* of the accounts, which create, fund, trade on and empty pool 0 and
\* register for and transfer its shares
AdminAccounts ==
    [v \in Users |->
        [registered |-> TRUE,
         tokens |-> [t \in Tokens |->
                       IF t \notin PoolTokens THEN 0 ELSE IF v = "u1" THEN 4 ELSE 2]]]

AdminRequests ==
    {<<SwapAction(0, "A", 2, "B", 1)>>, <<SwapAction(0, "B", 2, "A", 0)>>}

AdminAmounts == {<<4, 4>>, <<0, 4>>}

InitAdmin ==
    /\ state = "Running"
    /\ exchange_fee = EXCHANGE_FEE
    /\ referral_fee = REFERRAL_FEE
    /\ accepted_risk_score = ACCEPTED_RISK_SCORE
    /\ pools = <<>>
    /\ accounts = AdminAccounts
    /\ pending = {}
    /\ deposited = [t \in Tokens |-> IF t \in PoolTokens THEN 6 ELSE 0]
    /\ withdrawn = [t \in Tokens |-> 0]
    /\ last = NoCall

NextAdmin ==
    \/ \E caller \in Callers, new_state \in RunningStates :
          ChangeState(caller, new_state)
    \/ \E tokens \in TokenLists : AddSimplePool(tokens)
    \/ \E caller \in Callers, tokens \in StableTokenLists :
          AddStableSwapPool(caller, tokens)
    \/ \E u \in Users, actions \in AdminRequests : Swap(u, actions, None)
    \/ \E u \in Users, amounts \in AdminAmounts : AddLiquidity(u, 0, amounts, <<>>, 1)
    \/ \E operation \in pending, promise_result \in AmlResults :
          CallbackAmlOperation(operation, promise_result)
    \/ \E u \in Users, shares \in RemoveShares :
          RemoveLiquidity(u, 0, shares, <<0, 0>>)
    \/ \E u \in Users, actions \in AdminRequests : ExecuteActions(u, actions, None)
    \/ \E u \in Users : MftRegister(u, 0)
    \/ \E u \in Users, v \in Users, amount \in TransferShares :
          MftTransfer(u, 0, v, amount)

SpecAdmin == InitAdmin /\ [][NextAdmin]_vars

\* pool creations: add_simple_pool and add_stable_swap_pool calls are logged
\* with the pool list they found, between calls that use the pools
PoolIds == 0..(MaxRegistry - 1)

PoolLog(kind, tokens, r) ==
    [op |-> "add_pool", kind |-> kind, tokens |-> tokens, pools |-> pools,
     ok |-> r.ok, err |-> r.err, id |-> r.id]

LoggedAddSimplePool(tokens) ==
    /\ Len(pools) < MaxRegistry
    /\ pools' = add_simple_pool(pools, tokens, POOL_FEE).pools
    /\ last' = PoolLog("SimplePool", tokens, add_simple_pool(pools, tokens, POOL_FEE))
    /\ UNCHANGED <<state, exchange_fee, referral_fee, accepted_risk_score, accounts,
                   pending, deposited, withdrawn>>

LoggedAddStableSwapPool(caller, tokens) ==
    /\ Len(pools) < MaxRegistry
    /\ pools' = add_stable_swap_pool(pools, caller, tokens, POOL_FEE).pools
    /\ last' = PoolLog("StableSwapPool", tokens,
                       add_stable_swap_pool(pools, caller, tokens, POOL_FEE))
    /\ UNCHANGED <<state, exchange_fee, referral_fee, accepted_risk_score, accounts,
                   pending, deposited, withdrawn>>

InitPools ==
    /\ state = "Running"
    /\ exchange_fee = EXCHANGE_FEE
    /\ referral_fee = REFERRAL_FEE
    /\ accepted_risk_score = ACCEPTED_RISK_SCORE
    /\ pools = <<>>
    /\ accounts = FundedAccounts("u1", 2, 2)
    /\ pending = {}
    /\ deposited = [t \in Tokens |-> IF t \in PoolTokens THEN 2 ELSE 0]
    /\ withdrawn = [t \in Tokens |-> 0]
    /\ last = NoCall

NextPools ==
    \/ \E tokens \in TokenLists : LoggedAddSimplePool(tokens)
    \/ \E caller \in Callers, tokens \in StableTokenLists :
          LoggedAddStableSwapPool(caller, tokens)
    \/ \E caller \in Callers, new_state \in RunningStates :
          ChangeState(caller, new_state)
    \/ AddLiquidity("u1", 0, <<2, 2>>, <<>>, 1)
    \/ \E operation \in pending, promise_result \in AmlResults :
          CallbackAmlOperation(operation, promise_result)
    \/ RemoveLiquidity("u1", 0, INIT_SHARES_SUPPLY, <<0, 0>>)
    \/ \E pool_id \in PoolIds : MftRegister("u2", pool_id)

SpecPools == InitPools /\ [][NextPools]_vars

\* shares: the accounts are registered and funded; they create pool 0, add
\* and remove liquidity, swap with and without a referral (which mints fee
\* shares), register for the shares of the pool and transfer them
ShareAccounts ==
    [v \in Users |->
        [registered |-> TRUE,
         tokens |-> [t \in Tokens |->
                       IF t \notin PoolTokens THEN 0
                       ELSE IF v = "u2" /\ t = "A" THEN 4 ELSE 1]]]

ShareRequests ==
    {<<SwapAction(0, "A", 3, "B", 0)>>, <<SwapAction(0, "B", 1, "A", 0)>>}

ShareLiquidity == {<<1, 1>>}

\* share amounts of the transfers and removals
ShareAmounts == {INIT_SHARES_SUPPLY \div 2, INIT_SHARES_SUPPLY}

InitShares ==
    /\ state = "Running"
    /\ exchange_fee = EXCHANGE_FEE
    /\ referral_fee = REFERRAL_FEE
    /\ accepted_risk_score = ACCEPTED_RISK_SCORE
    /\ pools = <<>>
    /\ accounts = ShareAccounts
    /\ pending = {}
    /\ deposited = [t \in Tokens |-> IF t = "A" THEN 5 ELSE IF t = "B" THEN 2 ELSE 0]
    /\ withdrawn = [t \in Tokens |-> 0]
    /\ last = NoCall

\* add_liquidity as its AML callback runs it, while the pool has fewer than
\* MaxShares shares
AddShares(u, amounts) ==
    /\ Len(pools) = 1
    /\ pools[1].shares_total_supply < MaxShares
    /\ Commit(internal_add_liquidity_unchecked(pools, accounts, 0, amounts, u, <<>>, 1))
    /\ UNCHANGED <<state, exchange_fee, referral_fee, accepted_risk_score, pending,
                   deposited, withdrawn, last>>

NextShares ==
    \/ AddSimplePool(<<"A", "B">>)
    \/ \E u \in Users, amounts \in ShareLiquidity : AddShares(u, amounts)
    \/ \E u \in Users, actions \in ShareRequests, referral_id \in {None} \cup Users :
          ExecuteActions(u, actions, referral_id)
    \/ \E u \in Users : MftRegister(u, 0)
    \/ \E u \in Users, v \in Users, amount \in ShareAmounts :
          MftTransfer(u, 0, v, amount)
    \/ \E u \in Users, shares \in ShareAmounts :
          RemoveLiquidity(u, 0, shares, <<0, 0>>)

SpecShares == InitShares /\ [][NextShares]_vars

\* AML gating: on a funded pool the accounts send swap and add_liquidity
\* requests, the AML contract answers, and the owner changes the accepted
\* risk score between the calls
InitAml == ScenarioInit(4, 4, 4, 4)

NextAml ==
    \/ \E u \in Users, actions \in AdminRequests : Swap(u, actions, None)
    \/ \E u \in Users, amounts \in AdminAmounts : AddLiquidity(u, 0, amounts, <<>>, 1)
    \/ \E operation \in pending, promise_result \in AmlResults :
          CallbackAmlOperation(operation, promise_result)
    \/ \E caller \in Callers, score \in RiskScores :
          UpdateAcceptedRiskScore(caller, score)

SpecAml == InitAml /\ [][NextAml]_vars

\* Stable pool: an empty stable pool exists; the accounts add liquidity to it,
\* swap in it and take tokens out of it
\* total fee of the stable pool of the scenario
StableFee == 5000
\* what the liquidity provider u1 holds of each pool token at the start
StableFunds == 6
\* what the trader u2 holds of token A, and of token B
StableTraderA == 5
StableTraderB == 0

\* the ledger at the start: u1 holds funds of each pool token, u2 holds
\* trader_a of token A and trader_b of token B
StableAccounts(funds, trader_a, trader_b) ==
    [v \in Users |->
        [registered |-> TRUE,
         tokens |-> [t \in Tokens |->
                       IF t \notin PoolTokens THEN 0
                       ELSE IF v = "u1" THEN funds
                       ELSE IF t = "A" THEN trader_a ELSE trader_b]]]

\* add_stable_liquidity calls: the amounts and min_shares
StableLiquidity == {<<<<6, 6>>, 0>>, <<<<2, 0>>, 2>>}
StableRequests ==
    {<<SwapAction(0, "A", 1, "B", 0)>>, <<SwapAction(0, "A", 5, "B", 0)>>,
     <<SwapAction(0, "B", 2, "A", 1)>>}
\* remove_liquidity_by_tokens calls: the amounts and max_burn_shares
StableRemovals == {<<<<1, 1>>, 20>>, <<<<2, 0>>, 1>>, <<<<2, 0>>, 20>>}

\* an add_stable_liquidity request whose AML answer allows it: what its
\* callback does, internal_add_stable_liquidity_unchecked
AddStableLiquidity(u, pool_id, amounts, min_shares, attached_deposit) ==
    /\ Commit(internal_add_stable_liquidity_unchecked(pools, accounts, pool_id, amounts,
                                                      min_shares, u, attached_deposit))
    /\ UNCHANGED <<state, exchange_fee, referral_fee, accepted_risk_score, pending,
                   deposited, withdrawn, last>>

StableInit(funds, trader_a, trader_b) ==
    /\ state = "Running"
    /\ exchange_fee = EXCHANGE_FEE
    /\ referral_fee = REFERRAL_FEE
    /\ accepted_risk_score = ACCEPTED_RISK_SCORE
    /\ pools = <<StableSwapPool_new(<<"A", "B">>, StableFee)>>
    /\ accounts = StableAccounts(funds, trader_a, trader_b)
    /\ pending = {}
    /\ deposited = [t \in Tokens |-> IF t = "A" THEN funds + trader_a
                                     ELSE IF t = "B" THEN funds + trader_b
                                     ELSE 0]
    /\ withdrawn = [t \in Tokens |-> 0]
    /\ last = NoCall

InitStable == StableInit(StableFunds, StableTraderA, StableTraderB)

\* u1 provides the liquidity, u2 trades
NextStable ==
    \/ \E call \in StableLiquidity : AddStableLiquidity("u1", 0, call[1], call[2], 1)
    \/ \E actions \in StableRequests : ExecuteActions("u2", actions, None)
    \/ \E u \in Users, call \in StableRemovals :
          RemoveLiquidityByTokens(u, 0, call[1], call[2])

SpecStable == InitStable /\ [][NextStable]_vars

\* Stable pool with fees: the same calls on amounts large enough for the fee
\* of an imbalanced removal to leave an admin part
\* what the liquidity provider u1 holds of each pool token at the start
FeeFunds == 90
\* what the trader u2 holds of token A
FeeTraderA == 20

FeeLiquidity == {<<<<90, 90>>, 0>>, <<<<10, 0>>, 20>>}
FeeRequests == {<<SwapAction(0, "A", 20, "B", 0)>>, <<SwapAction(0, "B", 5, "A", 1)>>}
FeeRemovals == {<<<<63, 0>>, 100>>, <<<<63, 0>>, 50>>, <<<<10, 10>>, 30>>, <<<<0, 90>>, 200>>}

InitStableFees == StableInit(FeeFunds, FeeTraderA, 0)

NextStableFees ==
    \/ \E call \in FeeLiquidity : AddStableLiquidity("u1", 0, call[1], call[2], 1)
    \/ \E actions \in FeeRequests : ExecuteActions("u2", actions, None)
    \/ \E u \in Users, call \in FeeRemovals :
          RemoveLiquidityByTokens(u, 0, call[1], call[2])

SpecStableFees == InitStableFees /\ [][NextStableFees]_vars

\* Callers: on a funded pool, every account calls the public method
\* execute_actions with every account as its sender_id argument, sends swap
\* requests and withdraws; the call log keeps who the predecessor was
CallerRequests ==
    {<<SwapAction(0, "A", 2, "B", 1)>>, <<SwapAction(0, "B", 1, "A", 0)>>}

\* "pub fn execute_actions(&mut self, actions, referral_id, sender_id)" called
\* by predecessor_id: the method reads its sender_id argument and never
\* env::predecessor_account_id()
ExecuteActionsBy(predecessor_id, actions, referral_id, sender_id) ==
    /\ Commit(execute_actions(pools, accounts, actions, referral_id, sender_id))
    /\ last' = [op |-> "execute_actions", predecessor_id |-> predecessor_id,
                sender_id |-> sender_id]
    /\ UNCHANGED <<state, exchange_fee, referral_fee, accepted_risk_score, pending,
                   deposited, withdrawn>>

InitCallers == ScenarioInit(4, 4, 4, 2)

NextCallers ==
    \/ \E predecessor_id \in Users, actions \in CallerRequests, sender_id \in Users :
          ExecuteActionsBy(predecessor_id, actions, None, sender_id)
    \/ \E u \in Users, actions \in CallerRequests : Swap(u, actions, None)
    \/ \E operation \in pending, promise_result \in AmlResults :
          CallbackAmlOperation(operation, promise_result)
    \/ \E u \in Users, t \in PoolTokens : Withdraw(u, t)

SpecCallers == InitCallers /\ [][NextCallers]_vars

\* Pending requests: one account has up to MaxRequests requests waiting for
\* their AML answers, which together ask for more of A than it holds; the
\* callbacks run in any order and the account may withdraw in between.  last
\* keeps the operation of the callback that ran last and whether it panicked.
MaxRequests == 2

PendingRequests ==
    {<<SwapAction(0, "A", 3, "B", 0)>>, <<SwapAction(0, "A", 2, "B", 0)>>}

PendingAmounts == {<<2, 2>>}

\* Contract::swap, with up to MaxRequests requests waiting
SwapPending(u, actions, referral_id) ==
    /\ Cardinality(pending) < MaxRequests
    /\ state = "Running"
    /\ Len(actions) # 0
    /\ pending' = pending \cup {[op |-> "Swap", sender_id |-> u, actions |-> actions,
                                 referral_id |-> referral_id]}
    /\ UNCHANGED <<state, exchange_fee, referral_fee, accepted_risk_score, pools,
                   accounts, deposited, withdrawn, last>>

\* Contract::add_liquidity, likewise
AddLiquidityPending(u, pool_id, amounts, min_amounts, attached_deposit) ==
    /\ Cardinality(pending) < MaxRequests
    /\ state = "Running"
    /\ pending' = pending \cup {[op |-> "AddLiquidity", sender_id |-> u,
                                 pool_id |-> pool_id, amounts |-> amounts,
                                 min_amounts |-> min_amounts,
                                 attached_deposit |-> attached_deposit]}
    /\ UNCHANGED <<state, exchange_fee, referral_fee, accepted_risk_score, pools,
                   accounts, deposited, withdrawn, last>>

\* Contract::callback_aml_operation, noted in last
CallbackPending(operation, promise_result) ==
    /\ operation \in pending
    /\ pending' = pending \ {operation}
    /\ Commit(callback_aml_operation(operation, promise_result))
    /\ last' = [op |-> "callback_aml_operation", operation |-> operation,
                ok |-> callback_aml_operation(operation, promise_result).ok,
                err |-> callback_aml_operation(operation, promise_result).err]
    /\ UNCHANGED <<state, exchange_fee, referral_fee, accepted_risk_score, deposited,
                   withdrawn>>

InitPending == ScenarioInit(4, 4, 4, 4)

NextPending ==
    \/ \E actions \in PendingRequests : SwapPending("u2", actions, None)
    \/ \E amounts \in PendingAmounts : AddLiquidityPending("u2", 0, amounts, <<>>, 1)
    \/ \E operation \in pending, promise_result \in AmlResults :
          CallbackPending(operation, promise_result)
    \/ \E t \in PoolTokens : Withdraw("u2", t)

SpecPending == InitPending /\ [][NextPending]_vars

----------------------------------------------------------------------------
(* Properties *)

RECURSIVE SumOver(_, _)
SumOver(S, f) ==
    IF S = {} THEN 0
    ELSE LET e == CHOOSE e \in S : TRUE IN f[e] + SumOver(S \ {e}, f)

\* the ledger balances of a token, over all accounts
LedgerTotal(accts, t) == SumOver(Users, [u \in Users |-> accts[u].tokens[t]])

\* the reserve a pool holds of a token, 0 when the pool does not list it
Reserve(pool, t) ==
    IF token_index(pool, t) = 0 THEN 0 ELSE pool.amounts[token_index(pool, t)]

\* the reserves of a token, over all pools
ReserveTotal(pls, t) ==
    SumOver(DOMAIN pls, [i \in DOMAIN pls |-> Reserve(pls[i], t)])

----------------------------------------------------------------------------
(* Properties of one execute_actions call (SpecSwap, SpecRoundTrip).  last   *)
(* holds the call: its arguments, the registry and the ledger it started     *)
(* from, what it returned and the step of every action that ran.             *)

Called == last.op = "execute_actions"

\* floor(dx*(10000-f)*y / (x*10000 + dx*(10000-f)))
Quote(x, y, f, dx) == (dx * (10000 - f) * y) \div (x * 10000 + dx * (10000 - f))

Unchanged == pools = last.pools /\ accounts = last.accounts

\* the amount action k has to debit
ResolvedAmount(k) ==
    IF last.actions[k].amount_in # NoAmount THEN last.actions[k].amount_in
    ELSE IF k = 1 THEN NoAmount
    ELSE last.trace[k - 1].amount_out

\* what the first k actions added to a reserve of pool 0 and to the caller's
\* balance of token t
ReserveDelta(k, t) ==
    SumOver(1..k, [j \in 1..k |->
        (IF last.actions[j].token_in = t THEN last.trace[j].amount_in ELSE 0)
        - (IF last.actions[j].token_out = t THEN last.trace[j].amount_out ELSE 0)])

\* reserve of pool 0 and balance of the caller as the first k actions left them
ReserveAfter(k, t) == Reserve(last.pools[1], t) + ReserveDelta(k, t)

BalanceAfter(k, t) == last.accounts[last.sender_id].tokens[t] - ReserveDelta(k, t)

\* action k names pool 0, two different tokens of it, and a positive amount,
\* and the pool holds both tokens
WellFormed(k) ==
    /\ last.actions[k].pool_id = 0
    /\ last.actions[k].token_in \in PoolTokens
    /\ last.actions[k].token_out \in PoolTokens
    /\ last.actions[k].token_in # last.actions[k].token_out
    /\ ResolvedAmount(k) > 0
    /\ ReserveAfter(k - 1, "A") > 0
    /\ ReserveAfter(k - 1, "B") > 0

\* the output of action k by the formula, on the reserves the first k-1 left
QuoteAt(k) ==
    Quote(ReserveAfter(k - 1, last.actions[k].token_in),
          ReserveAfter(k - 1, last.actions[k].token_out),
          last.pools[1].total_fee, ResolvedAmount(k))

\* C2: when an action of an execute_actions call fails, the pools (reserves
\* and shares) and the ledger are exactly as before the call, whatever
\* earlier actions of the call had done.
AllOrNothing ==
    Called /\ (~last.ok \/ \E k \in DOMAIN last.trace : ~last.trace[k].ok)
        => Unchanged

\* C2 is exercised: the first action swapped, the second named a pool that
\* does not exist
AllOrNothingReached ==
    /\ Called
    /\ Len(last.trace) = 2
    /\ last.trace[1].ok /\ last.trace[1].amount_out > 0
    /\ last.err = "ERR_NO_POOL"
    /\ Unchanged

\* C3: a swap that succeeds pays out at least the action's min_amount_out,
\* and a swap whose output by the formula is below min_amount_out fails the
\* call, which leaves pools and ledger unchanged.
SlippageEnforced ==
    Called =>
        /\ \A k \in DOMAIN last.trace :
              /\ last.trace[k].ok
                    => last.trace[k].amount_out >= last.actions[k].min_amount_out
              /\ WellFormed(k) /\ QuoteAt(k) < last.actions[k].min_amount_out
                    => ~last.trace[k].ok /\ ~last.ok /\ Unchanged
        /\ last.ok /\ Len(last.actions) = 1
              => accounts[last.sender_id].tokens[last.actions[1].token_out]
                   >= last.accounts[last.sender_id].tokens[last.actions[1].token_out]
                        + last.actions[1].min_amount_out

\* C3 is exercised: the second swap's output was positive and below its
\* min_amount_out
SlippageEnforcedReached ==
    /\ Called
    /\ Len(last.trace) = 2
    /\ last.trace[1].ok
    /\ last.err = "ERR_MIN_AMOUNT"
    /\ WellFormed(2)
    /\ QuoteAt(2) > 0
    /\ Unchanged

\* C4: every action debits its own amount_in when it has one and otherwise
\* the amount_out of the action before it; a first action without amount_in
\* fails the call; a successful call returns the amount_out of its last
\* action, and the caller's ledger moved by exactly the amounts so resolved.
AmountResolution ==
    Called =>
        /\ \A k \in DOMAIN last.trace : last.trace[k].amount_in = ResolvedAmount(k)
        /\ last.actions[1].amount_in = NoAmount => ~last.ok /\ Unchanged
        /\ last.ok =>
              /\ Len(last.trace) = Len(last.actions)
              /\ last.result = last.trace[Len(last.trace)].amount_out
              /\ \A t \in Tokens :
                    accounts[last.sender_id].tokens[t] = BalanceAfter(Len(last.trace), t)

\* C4 is exercised: the second action had no amount_in and spent the output
\* of the first, which differs from the first's input
AmountResolutionReached ==
    /\ Called
    /\ last.ok
    /\ Len(last.actions) = 2
    /\ last.actions[2].amount_in = NoAmount
    /\ last.trace[2].amount_in = last.trace[1].amount_out
    /\ last.trace[1].amount_out # last.trace[1].amount_in
    /\ last.result > 0

\* C5: the second action of a call runs after the first and on what the
\* first left: it succeeds exactly when it is well formed, the caller's
\* balance after the first action covers it and its output on the reserves
\* after the first action reaches min_amount_out, and that output is what
\* it pays.
ActionOrdering ==
    Called /\ Len(last.trace) = 2 =>
        /\ last.trace[1].ok
        /\ last.trace[2].ok
              <=> /\ WellFormed(2)
                  /\ ResolvedAmount(2) <= BalanceAfter(1, last.actions[2].token_in)
                  /\ QuoteAt(2) >= last.actions[2].min_amount_out
        /\ last.trace[2].ok =>
              /\ last.trace[2].amount_out = QuoteAt(2)
              /\ \A t \in PoolTokens : Reserve(pools[1], t) = ReserveAfter(2, t)

\* C5 is exercised: the second swap went through the pool of the first, was
\* paid from the first's output, and got another amount than the reserves
\* before the call would have given
ActionOrderingReached ==
    /\ Called
    /\ last.ok
    /\ Len(last.trace) = 2
    /\ last.accounts[last.sender_id].tokens[last.actions[2].token_in] < ResolvedAmount(2)
    /\ last.trace[2].amount_out
         # Quote(Reserve(last.pools[1], last.actions[2].token_in),
                 Reserve(last.pools[1], last.actions[2].token_out),
                 last.pools[1].total_fee, ResolvedAmount(2))

Product(k) == ReserveAfter(k, "A") * ReserveAfter(k, "B")

\* C6: a successful swap never lowers the product of the two reserves.
ProductMonotone ==
    Called =>
        /\ \A k \in DOMAIN last.trace :
              last.trace[k].ok => Product(k) >= Product(k - 1)
        /\ last.ok =>
              Reserve(pools[1], "A") * Reserve(pools[1], "B")
                 = Product(Len(last.trace))

\* C6 is exercised: a swap paid out and the product grew
ProductMonotoneReached ==
    /\ Called
    /\ last.ok
    /\ Len(last.trace) = 1
    /\ last.result > 1
    /\ Reserve(pools[1], "A") * Reserve(pools[1], "B") > Product(0)

RoundTripIn == last.actions[1].amount_in

\* C8: a call that swaps amount_in of A to B and the whole output back to A
\* returns at most amount_in of A: the caller's balance of A does not grow
\* and the balance of B is as before.
RoundTripNoProfit ==
    Called /\ last.ok =>
        /\ last.result <= RoundTripIn
        /\ accounts[last.sender_id].tokens["A"]
             = last.accounts[last.sender_id].tokens["A"] - RoundTripIn + last.result
        /\ accounts[last.sender_id].tokens["B"]
             = last.accounts[last.sender_id].tokens["B"]

\* C8 is exercised: a round trip of more than one unit came back one unit short
RoundTripNoProfitReached ==
    /\ Called
    /\ last.ok
    /\ last.trace[2].amount_in = last.trace[1].amount_out
    /\ RoundTripIn > 1
    /\ last.result = RoundTripIn - 1

\* C9 as stated, with ten units for eps: a round trip returns at least
\* amount_in * (1 - 2 * total_fee / 10000) - 10.
RoundTripLossWithinUnits ==
    Called /\ last.ok =>
        last.result * 10000 + 10 * 10000
            >= RoundTripIn * (10000 - 2 * last.pools[1].total_fee)

\* C9, amended: with X of A and Y of B the reserves between the two swaps, a
\* round trip returns more than
\* amount_in * (1 - 2 * total_fee / 10000) - X / Y - 1:
\* the unit of B the first swap's floor may keep is worth X / Y of A.
RoundTripLossBound ==
    Called /\ last.ok =>
        (last.result + 1) * ReserveAfter(1, "B") * 10000
              + ReserveAfter(1, "A") * 10000
            >= RoundTripIn * (10000 - 2 * last.pools[1].total_fee)
                 * ReserveAfter(1, "B")

\* C9 is exercised: a round trip that came back more than ten units below
\* amount_in * (1 - 2 * total_fee / 10000)
RoundTripLossBoundReached ==
    /\ Called
    /\ last.ok
    /\ last.result > 0
    /\ last.result * 10000 + 10 * 10000
         < RoundTripIn * (10000 - 2 * last.pools[1].total_fee)

----------------------------------------------------------------------------
(* Properties of the add_liquidity callback (Spec) *)

\* the step is the callback of the add_liquidity request op, it finds pool 0
\* without shares, and it changes the registry or the ledger
FirstLiquidityStep(op) ==
    /\ op.op = "AddLiquidity"
    /\ op \notin pending'
    /\ Len(pools) = 1
    /\ pools[1].shares_total_supply = 0
    /\ pools' # pools \/ accounts' # accounts

\* the amount the request op names for token t of pool 0
Requested(op, t) ==
    IF token_index(pools[1], t) = 0 THEN 0 ELSE op.amounts[token_index(pools[1], t)]

\* C10: add_liquidity on a simple pool without shares takes exactly the
\* requested amounts from the provider's ledger, makes them the reserves,
\* and mints INIT_SHARES_SUPPLY shares to the provider, which are then all
\* the shares of the pool; nothing else changes.
FirstLiquidity ==
    [][\A op \in pending :
          FirstLiquidityStep(op) =>
              /\ pools'[1].amounts = op.amounts
              /\ pools'[1].shares_total_supply = INIT_SHARES_SUPPLY
              /\ pools'[1].shares[op.sender_id] = INIT_SHARES_SUPPLY
              /\ \A a \in Accts \ {op.sender_id} :
                    pools'[1].shares[a] = pools[1].shares[a]
              /\ \A t \in Tokens :
                    accounts'[op.sender_id].tokens[t]
                       = accounts[op.sender_id].tokens[t] - Requested(op, t)
              /\ \A u \in Users \ {op.sender_id} : accounts'[u] = accounts[u]
      ]_vars

\* C10 is exercised: u1 deposited 2 of A and 4 of B and put all of it into
\* the pool as its first liquidity
FirstLiquidityReached ==
    /\ Len(pools) = 1
    /\ pools[1].amounts = <<2, 4>>
    /\ pools[1].shares_total_supply = INIT_SHARES_SUPPLY
    /\ pools[1].shares["u1"] = INIT_SHARES_SUPPLY
    /\ deposited["A"] = 2 /\ deposited["B"] = 4
    /\ accounts["u1"].tokens["A"] = 0 /\ accounts["u1"].tokens["B"] = 0
    /\ withdrawn["A"] = 0 /\ withdrawn["B"] = 0

\* a logged add_liquidity call on pool 0
AddCalled == last # NoCall /\ last.op = "add_liquidity" /\ last.pool_id = 0

\* n / d rounded up, as the least c with c * d >= n
CeilOf(n, d) == CHOOSE c \in 0..n : c * d >= n /\ (c = 0 \/ (c - 1) * d < n)

\* the shares a pool with shares mints for the offered amounts
FairShares(pool, amounts) ==
    LET s1 == (amounts[1] * pool.shares_total_supply) \div pool.amounts[1]
        s2 == (amounts[2] * pool.shares_total_supply) \div pool.amounts[2]
    IN  IF s1 <= s2 THEN s1 ELSE s2

\* the amounts the pool takes for r new shares
Consumed(pool, r) ==
    <<CeilOf(r * pool.amounts[1], pool.shares_total_supply),
      CeilOf(r * pool.amounts[2], pool.shares_total_supply)>>

\* the ledger balance of the pool's i-th token
LedgerOf(accts, u, pool, i) == accts[u].tokens[pool.token_account_ids[i]]

\* the pool's tokens moved out of (d = -1) or into (d = 1) u's ledger balance,
\* everything else in the ledger as the call found it
LedgerMoved(u, pool, amts, d) ==
    /\ \A i \in 1..2 :
          LedgerOf(accounts, u, pool, i) = LedgerOf(last.accounts, u, pool, i) + d * amts[i]
    /\ \A t \in Tokens \ {pool.token_account_ids[1], pool.token_account_ids[2]} :
          accounts[u].tokens[t] = last.accounts[u].tokens[t]
    /\ \A v \in Users \ {u} : accounts[v] = last.accounts[v]

\* C11: add_liquidity on a pool with shares and reserves x, y mints
\* r = min(floor(a0*ts/x), floor(a1*ts/y)) shares to the caller, takes
\* ceil(r*x/ts) and ceil(r*y/ts) into the reserves, and debits the caller's
\* ledger by exactly these amounts, which never exceed the requested ones;
\* with less than a consumed amount in the ledger the call fails, and a
\* failed call changes nothing.
SubsequentLiquidity ==
    (/\ AddCalled
     /\ last.pools[1].shares_total_supply > 0
     /\ last.pools[1].amounts[1] > 0 /\ last.pools[1].amounts[2] > 0)
    => LET pool == last.pools[1]
           u == last.sender_id
           r == FairShares(pool, last.amounts)
           c == Consumed(pool, FairShares(pool, last.amounts))
       IN  /\ \A i \in 1..2 : c[i] <= last.amounts[i]
           /\ (\E i \in 1..2 : LedgerOf(last.accounts, u, pool, i) < c[i]) => ~last.ok
           /\ ((\A i \in 1..2 : LedgerOf(last.accounts, u, pool, i) >= c[i])
                  /\ last.min_amounts = <<>>) => last.ok
           /\ ~last.ok => pools = last.pools /\ accounts = last.accounts
           /\ last.ok =>
                 /\ pools[1].shares_total_supply = pool.shares_total_supply + r
                 /\ SharesOf(pools[1], u) = SharesOf(pool, u) + r
                 /\ \A a \in Accts \ {u} : pools[1].shares[a] = pool.shares[a]
                 /\ pools[1].amounts = <<pool.amounts[1] + c[1], pool.amounts[2] + c[2]>>
                 /\ LedgerMoved(u, pool, c, -1)

\* C11 is exercised: u2 offers 2 A and 5 B to a pool of 3 A : 5 B with 100
\* shares; 66 shares are minted for 2 A and 4 B, and 1 B stays in the ledger
SubsequentLiquidityReached ==
    /\ AddCalled /\ last.ok
    /\ last.sender_id = "u2"
    /\ last.amounts = <<2, 5>>
    /\ last.pools[1].amounts = <<3, 5>>
    /\ last.pools[1].shares_total_supply = INIT_SHARES_SUPPLY
    /\ pools[1].amounts = <<5, 9>>
    /\ pools[1].shares["u2"] = 66
    /\ last.accounts["u2"].tokens["B"] = MaxSupply
    /\ accounts["u2"].tokens["B"] = MaxSupply - 4

\* a logged remove_liquidity call on pool 0
RemoveCalled == last # NoCall /\ last.op = "remove_liquidity" /\ last.pool_id = 0

\* the amounts a pool pays for the shares: each is rounded down
Returned(pool, shares) ==
    <<(shares * pool.amounts[1]) \div pool.shares_total_supply,
      (shares * pool.amounts[2]) \div pool.shares_total_supply>>

\* C12: remove_liquidity of s shares pays a_i = floor(s * reserve_i / ts) of
\* each token into the caller's ledger and lowers the reserves by a_i and the
\* caller's shares and the share total by s; it fails when an a_i is below
\* min_amounts[i] or the caller has fewer than s shares, and a failed call
\* changes nothing.
RemoveLiquidityAmounts ==
    (RemoveCalled /\ last.pools[1].shares_total_supply > 0)
    => LET pool == last.pools[1]
           u == last.sender_id
           a == Returned(pool, last.shares)
       IN  /\ last.ok <=> /\ pool.shares[u] >= last.shares
                          /\ \A i \in 1..2 : a[i] >= last.min_amounts[i]
           /\ ~last.ok => pools = last.pools /\ accounts = last.accounts
           /\ last.ok =>
                 /\ pools[1].amounts = <<pool.amounts[1] - a[1], pool.amounts[2] - a[2]>>
                 /\ pools[1].shares_total_supply = pool.shares_total_supply - last.shares
                 /\ pools[1].shares[u] = pool.shares[u] - last.shares
                 /\ \A b \in Accts \ {u} : pools[1].shares[b] = pool.shares[b]
                 /\ LedgerMoved(u, pool, a, 1)

\* C12 is exercised: u1 removes half of the 100 shares of a pool of 3 A : 5 B
\* and is paid 1 A and 2 B
RemoveLiquidityAmountsReached ==
    /\ RemoveCalled /\ last.ok
    /\ last.sender_id = "u1"
    /\ last.shares = 50
    /\ last.pools[1].amounts = <<3, 5>>
    /\ last.pools[1].shares_total_supply = INIT_SHARES_SUPPLY
    /\ pools[1].amounts = <<2, 3>>
    /\ pools[1].shares["u1"] = 50
    /\ accounts["u1"].tokens["A"] = 1 /\ accounts["u1"].tokens["B"] = 2

\* the logged removal took out exactly the shares that the successful add
\* logged before it had minted to the same account
MintedRemoved ==
    /\ RemoveCalled
    /\ last.prev # NoCall
    /\ last.prev.op = "add_liquidity" /\ last.prev.ok /\ last.prev.pool_id = 0
    /\ last.sender_id = last.prev.sender_id
    /\ last.shares = SharesOf(last.pools[1], last.sender_id)
                        - SharesOf(last.prev.pools[1], last.sender_id)

\* C13: liquidity rounding favours the pool.  An account that adds liquidity
\* and then removes exactly the shares it was minted ends, for every token,
\* with at most the balance it had before the add; and a successful add to a
\* pool with shares never lowers reserve_i / total_shares:
\* reserve_i' * ts >= reserve_i * ts'.
LiquidityRounding ==
    /\ MintedRemoved =>
          \A t \in Tokens :
             accounts[last.sender_id].tokens[t]
                <= last.prev.accounts[last.sender_id].tokens[t]
    /\ (AddCalled /\ last.ok /\ last.pools[1].shares_total_supply > 0) =>
          \A i \in 1..2 :
             pools[1].amounts[i] * last.pools[1].shares_total_supply
                >= last.pools[1].amounts[i] * pools[1].shares_total_supply

\* C13 is exercised: u2 added 2 A and 4 B to a pool of 3 A : 5 B for 66
\* shares and took the 66 shares out again for 1 A and 3 B
LiquidityRoundingReached ==
    /\ MintedRemoved /\ last.ok
    /\ last.sender_id = "u2"
    /\ last.shares = 66
    /\ last.prev.pools[1].amounts = <<3, 5>>
    /\ last.pools[1].amounts = <<5, 9>>
    /\ pools[1].amounts = <<4, 6>>
    /\ last.prev.accounts["u2"].tokens["A"] = MaxSupply
    /\ last.accounts["u2"].tokens["A"] = MaxSupply - 2
    /\ accounts["u2"].tokens["A"] = MaxSupply - 1

\* C14: in every reachable state, a simple pool that has shares has two
\* positive reserves.
ReserveInvariant ==
    \A i \in DOMAIN pools :
        (pools[i].kind = "SimplePool" /\ pools[i].shares_total_supply > 0)
        => (pools[i].amounts[1] > 0 /\ pools[i].amounts[2] > 0)

\* pool 0 is a simple pool in the Empty state
EmptyPool ==
    /\ Len(pools) >= 1
    /\ pools[1].kind = "SimplePool"
    /\ pools[1].shares_total_supply = 0

\* a step of a swap request on pool 0: a direct execute_actions call, or the
\* AML callback of a swap accepted before
SwapStep ==
    \/ \E u \in Users, actions \in AdminRequests : ExecuteActions(u, actions, None)
    \/ \E op \in pending, promise_result \in AmlResults :
          op.op = "Swap" /\ CallbackAmlOperation(op, promise_result)

\* C15: a swap on a pool in the Empty state (no shares, whether never funded
\* or emptied by the removal of all shares) fails and changes neither pools
\* nor ledger; so a swap that changes them ran on an Active pool.
SwapOnlyActive ==
    [][(EmptyPool /\ SwapStep) => (pools' = pools /\ accounts' = accounts)]_vars

\* C15 is exercised: the pool was funded and then emptied by the removal of
\* all its shares, a trader holds 2 B in the ledger, and a swap request of
\* the trader is waiting for its callback
SwapOnlyActiveReached ==
    /\ EmptyPool
    /\ pools[1].shares["u1"] = 0
    /\ pools[1].amounts = <<0, 0>>
    /\ accounts["u2"].tokens["B"] >= 2
    /\ \E op \in pending :
          op.op = "Swap" /\ op.sender_id = "u2" /\ op.actions[1].min_amount_out = 0

\* a step of one of the entry points that call assert_contract_running
CheckedEntryPoint ==
    \/ \E tokens \in TokenLists : AddSimplePool(tokens)
    \/ \E u \in Users, actions \in AdminRequests : ExecuteActions(u, actions, None)
    \/ \E u \in Users, actions \in AdminRequests : Swap(u, actions, None)
    \/ \E u \in Users, amounts \in AdminAmounts : AddLiquidity(u, 0, amounts, <<>>, 1)
    \/ \E u \in Users, shares \in RemoveShares : RemoveLiquidity(u, 0, shares, <<0, 0>>)

\* a step of add_stable_swap_pool
StablePoolEntryPoint ==
    \E caller \in Callers, tokens \in StableTokenLists : AddStableSwapPool(caller, tokens)

\* C16: while the contract is Paused, a call of a mutating entry point
\* (add_simple_pool, add_stable_swap_pool, execute_actions, swap,
\* add_liquidity, remove_liquidity) leaves pools, shares and ledger, and the
\* requests waiting for a callback, as they were.
PauseGating ==
    [][(state = "Paused" /\ (CheckedEntryPoint \/ StablePoolEntryPoint))
          => (pools' = pools /\ accounts' = accounts /\ pending' = pending)]_vars

\* the same for the entry points that call assert_contract_running
PauseGatingChecked ==
    [][(state = "Paused" /\ CheckedEntryPoint)
          => (pools' = pools /\ accounts' = accounts /\ pending' = pending)]_vars

\* C17: a swap or add_liquidity request runs to completion before the next
\* request begins: from the step that accepts it until the step that commits
\* its pool and ledger changes, no other step changes the pools, the ledger
\* or the running state.
NoSuspension ==
    [][(pending # {} /\ (pools' # pools \/ accounts' # accounts \/ state' # state))
          => \E op \in pending : pending' = pending \ {op}]_vars

\* what makes a pool the pool it is: its kind, tokens and fee
PoolIdentity(pool) == <<pool.kind, pool.token_account_ids, pool.total_fee>>

\* the step is a logged add_simple_pool or add_stable_swap_pool call
PoolCreationStep == last' # last /\ last'.op = "add_pool"

\* C18: a successful add_simple_pool or add_stable_swap_pool returns the
\* number of pools there were before the call and appends exactly one pool;
\* a failed one leaves the list as it was; no other step changes the length
\* of the list, and no step at all removes a pool or changes which pool an
\* id names.
PoolIdsMonotonic ==
    [][/\ Len(pools') >= Len(pools)
       /\ \A i \in DOMAIN pools : PoolIdentity(pools'[i]) = PoolIdentity(pools[i])
       /\ ~PoolCreationStep => Len(pools') = Len(pools)
       /\ PoolCreationStep =>
             /\ last'.pools = pools
             /\ ~last'.ok => pools' = pools
             /\ last'.ok =>
                   /\ last'.id = Len(pools)
                   /\ Len(pools') = Len(pools) + 1
                   /\ \A i \in DOMAIN pools : pools'[i] = pools[i]
                   /\ PoolIdentity(pools'[Len(pools) + 1])
                         = <<last'.kind, last'.tokens, POOL_FEE>>
      ]_vars

\* C18 is exercised: a stable pool was created as the third pool, with id 2,
\* after liquidity had been added to pool 0
PoolIdsMonotonicReached ==
    /\ last # NoCall /\ last.op = "add_pool" /\ last.ok
    /\ last.kind = "StableSwapPool"
    /\ last.id = 2
    /\ Len(last.pools) = 2
    /\ Len(pools) = 3
    /\ pools[1].kind = "SimplePool"
    /\ pools[1].shares_total_supply = INIT_SHARES_SUPPLY
    /\ pools[3].kind = "StableSwapPool"

\* a token occurs twice in the list
DuplicateTokens(tokens) ==
    \E i, j \in DOMAIN tokens : i # j /\ tokens[i] = tokens[j]

\* C19: add_simple_pool on a running contract fails and creates no pool when
\* a token occurs twice in the list (ERR_TOKEN_DUPLICATES) and when the list
\* has not exactly two tokens (ERR_SHOULD_HAVE_2_TOKENS); a list with both
\* defects is refused for the duplicate; every other list creates the pool.
SimplePoolShape ==
    [][(PoolCreationStep /\ last'.kind = "SimplePool" /\ state = "Running") =>
          /\ DuplicateTokens(last'.tokens) =>
                ~last'.ok /\ last'.err = "ERR_TOKEN_DUPLICATES" /\ pools' = pools
          /\ (~DuplicateTokens(last'.tokens) /\ Len(last'.tokens) # 2) =>
                ~last'.ok /\ last'.err = "ERR_SHOULD_HAVE_2_TOKENS" /\ pools' = pools
          /\ (~DuplicateTokens(last'.tokens) /\ Len(last'.tokens) = 2) => last'.ok
      ]_vars

\* C19 is exercised: with one pool in the list, a list of three tokens of
\* which two are the same was refused for the duplicate
SimplePoolShapeReached ==
    /\ last # NoCall /\ last.op = "add_pool" /\ last.kind = "SimplePool"
    /\ state = "Running"
    /\ last.tokens = <<"A", "A", "B">>
    /\ ~last.ok
    /\ last.err = "ERR_TOKEN_DUPLICATES"
    /\ Len(last.pools) = 1
    /\ pools = last.pools

\* C20: a transfer of pool shares whose receiver is the sender fails, for
\* every pool id and every amount, and no share balance changes; on a running
\* contract the error is "E33: transfer to self".
TransferToSelf ==
    \A u \in Users, pool_id \in PoolIds, amount \in {0, 1, INIT_SHARES_SUPPLY} :
        /\ ~mft_transfer(pools, pool_id, u, u, amount).ok
        /\ mft_transfer(pools, pool_id, u, u, amount).pools = pools
        /\ state = "Running" =>
              mft_transfer(pools, pool_id, u, u, amount).err = "E33: transfer to self"

\* C20 is exercised: on a running contract u1 holds the shares of pool 0 that
\* the refused transfer names, and u2 is registered for them
TransferToSelfReached ==
    /\ state = "Running"
    /\ Len(pools) = 1
    /\ pools[1].shares["u1"] = INIT_SHARES_SUPPLY
    /\ pools[1].shares["u2"] = 0
    /\ mft_transfer(pools, 0, "u1", "u2", INIT_SHARES_SUPPLY).ok
    /\ ~mft_transfer(pools, 0, "u1", "u1", INIT_SHARES_SUPPLY).ok

----------------------------------------------------------------------------
(* Properties of the pool shares (SpecShares) *)

\* the account has an entry in the pool's shares
ShareRegistered(pool, a) == pool.shares[a] # Unregistered

\* C21: share registration is sticky.  An account that is share-registered in
\* pool 0 is still share-registered after every step, a remove_liquidity that
\* brings its balance to zero included, and an mft_register of it then fails
\* with "E14: LP already registered".
StickyRegistration ==
    [][\A a \in Accts :
          (Len(pools) >= 1 /\ ShareRegistered(pools[1], a)) =>
              /\ ShareRegistered(pools'[1], a)
              /\ ~mft_register(pools', 0, a).ok
              /\ mft_register(pools', 0, a).err = "E14: LP already registered"
              /\ mft_register(pools', 0, a).pools = pools'
      ]_vars

\* C21 is exercised: u1 added the first liquidity, u2 received shares, and
\* both removed all they held: the pool is empty, the ledger of u2 holds every
\* token, and both are share-registered with a balance of zero
StickyRegistrationReached ==
    /\ Len(pools) = 1
    /\ pools[1].shares_total_supply = 0
    /\ pools[1].amounts = <<0, 0>>
    /\ pools[1].shares["u1"] = 0
    /\ pools[1].shares["u2"] = 0
    /\ accounts["u1"].tokens["A"] = 0 /\ accounts["u1"].tokens["B"] = 0
    /\ accounts["u2"].tokens["A"] = 5 /\ accounts["u2"].tokens["B"] = 2

\* C22: a transfer of n shares of pool 0 between two distinct share-registered
\* accounts, of which the sender holds at least n, lowers the sender's balance
\* by n and raises the receiver's by n; the share total, the reserves, every
\* other share balance and the ledger stay as they were.  With fewer than n
\* shares the transfer changes nothing.
TransferFrame ==
    [][\A u \in Users, v \in Users, n \in ShareAmounts :
          (/\ u # v
           /\ Len(pools) = 1
           /\ ShareRegistered(pools[1], u) /\ ShareRegistered(pools[1], v)
           /\ MftTransfer(u, 0, v, n)) =>
              IF pools[1].shares[u] < n THEN pools' = pools
              ELSE /\ pools'[1].shares[u] = pools[1].shares[u] - n
                   /\ pools'[1].shares[v] = pools[1].shares[v] + n
                   /\ \A a \in Accts \ {u, v} : pools'[1].shares[a] = pools[1].shares[a]
                   /\ pools'[1].shares_total_supply = pools[1].shares_total_supply
                   /\ pools'[1].amounts = pools[1].amounts
                   /\ accounts' = accounts
      ]_vars

\* C22 is exercised: u1 holds half and u2, which never added liquidity, holds
\* the other half of the shares u1 was minted for 1 A and 1 B
TransferFrameReached ==
    /\ Len(pools) = 1
    /\ pools[1].amounts = <<1, 1>>
    /\ pools[1].shares_total_supply = INIT_SHARES_SUPPLY
    /\ pools[1].shares["u1"] = INIT_SHARES_SUPPLY - INIT_SHARES_SUPPLY \div 2
    /\ pools[1].shares["u2"] = INIT_SHARES_SUPPLY \div 2
    /\ accounts["u2"] = ShareAccounts["u2"]

\* the share balances of a pool, over all accounts, the exchange included
SharesSum(pool) == SumOver(Accts, [a \in Accts |-> share_balance(pool, a)])

\* C30: in every reachable state and for every pool, the share balances of
\* all share-registered accounts, the exchange included, add up to the pool's
\* total supply of shares.
ShareSupply ==
    \A i \in DOMAIN pools : SharesSum(pools[i]) = pools[i].shares_total_supply

\* C30 is exercised: u2 added the first liquidity, a swap with u2 as the
\* referral minted 8 fee shares to the exchange and 2 to u2, u2 transferred
\* half of the initial supply to u1, and u1 removed it for 1 A
ShareSupplyReached ==
    /\ Len(pools) = 1
    /\ pools[1].amounts = <<3, 1>>
    /\ pools[1].shares[EXCHANGE_ID] = 8
    /\ pools[1].shares["u1"] = 0
    /\ pools[1].shares["u2"] = INIT_SHARES_SUPPLY \div 2 + 2
    /\ pools[1].shares_total_supply = INIT_SHARES_SUPPLY \div 2 + 10
    /\ accounts["u1"].tokens["A"] = ShareAccounts["u1"].tokens["A"] + 1

----------------------------------------------------------------------------
(* Properties of the ledger debits (Spec) *)

\* the other token of the pool
OtherToken(t) == IF t = "A" THEN "B" ELSE "A"

\* amounts offered to add_liquidity, one of them above every balance
OverdraftAmounts == LiquidityAmounts \cup {<<MaxSupply + 1, MaxSupply + 1>>}

\* what an add_liquidity call r took into the reserves of pool 0 is covered by
\* the caller's ledger balances before the call
DebitCovered(u, r) ==
    (Len(pools) = 1 /\ r.ok) =>
        \A i \in 1..2 :
            r.pools[1].amounts[i] - pools[1].amounts[i]
                <= accounts[u].tokens[pools[1].token_account_ids[i]]

----------------------------------------------------------------------------
(* Properties of the referral of a call (SpecSwap) *)

\* what the logged call left: its outcome, and the state after it
LastOutcome ==
    [ok |-> last.ok, result |-> last.result, pools |-> pools, accounts |-> accounts]

\* the logged call, made with another referral in the state it started from
WithReferral(referral_id) ==
    execute_actions(last.pools, last.accounts, last.actions, referral_id, last.sender_id)

\* two outcomes of a call agree on what the trader sees and on the reserves
SameTrade(r, q) ==
    /\ r.ok = q.ok
    /\ r.ok =>
          /\ r.result = q.result
          /\ r.accounts = q.accounts
          /\ \A i \in DOMAIN r.pools : r.pools[i].amounts = q.pools[i].amounts

\* every share the call r minted in pool 0 went to the exchange
AllToExchange(r) ==
    r.ok =>
        /\ r.pools[1].shares_total_supply - last.pools[1].shares_total_supply
              = r.pools[1].shares[EXCHANGE_ID] - last.pools[1].shares[EXCHANGE_ID]
        /\ \A u \in Users : r.pools[1].shares[u] = last.pools[1].shares[u]

----------------------------------------------------------------------------
(* Properties of the min_amounts of add_liquidity (SpecLiquidity) *)

\* what the logged add_liquidity took into reserve i of pool 0
ConsumedByLast(i) == pools[1].amounts[i] - last.pools[1].amounts[i]

\* the logged add_liquidity was given Some(list) as min_amounts
MinAmountsSupplied == AddCalled /\ last.min_amounts # <<>>

\* C28: a successful add_liquidity that was given min_amounts consumed, for
\* every token of the pool, at least the minimum given for that token,
\* whatever the length of the list; a failed one changes neither pool nor
\* ledger.
MinAmountsFloor ==
    /\ (MinAmountsSupplied /\ last.ok) =>
          \A i \in 1..2 :
              /\ i \in DOMAIN last.min_amounts[1]
              /\ ConsumedByLast(i) >= last.min_amounts[1][i]
    /\ (MinAmountsSupplied /\ ~last.ok) =>
          pools = last.pools /\ accounts = last.accounts

\* the same for the tokens that have an entry in the list: the check pairs the
\* consumed amounts with the minimums and stops at the shorter list
MinAmountsFloorPaired ==
    /\ (MinAmountsSupplied /\ last.ok) =>
          \A i \in 1..2 :
              i \in DOMAIN last.min_amounts[1]
                  => ConsumedByLast(i) >= last.min_amounts[1][i]
    /\ (MinAmountsSupplied /\ ~last.ok) =>
          pools = last.pools /\ accounts = last.accounts
    /\ (MinAmountsSupplied /\ last.err = "ERR_MIN_AMOUNT") =>
          \E i \in DOMAIN last.min_amounts[1] :
              /\ i <= 2
              /\ pool_add_liquidity(last.pools[1], last.sender_id, last.amounts).amounts[i]
                    < last.min_amounts[1][i]

----------------------------------------------------------------------------
(* Properties of the AML callback (SpecAml) *)

\* the AML answer lets the operation run under the score now stored
AmlAllowed(promise_result) ==
    /\ promise_result.status = "Successful"
    /\ promise_result.category = "None" \/ promise_result.risk <= accepted_risk_score

----------------------------------------------------------------------------
(* Properties of the stable pool (SpecStable) *)

\* the invariant D of the reserves of pool 0; -1 when compute-D fails
PoolD(pls) ==
    IF compute_d(pls[1].amounts, pls[1].amp_factor).ok
    THEN compute_d(pls[1].amounts, pls[1].amp_factor).value
    ELSE -1

\* the swap request is carried out in full
SwapSucceeds(actions) == execute_actions(pools, accounts, actions, None, "u2").ok

\* y of the swap the action asks of the pool
SwapY(pool, action) ==
    compute_y(pool.amounts[token_index(pool, action.token_in)] + action.amount_in,
              compute_d(pool.amounts, pool.amp_factor).value, pool.amp_factor).value

\* fee_c of that swap
SwapFee(pool, action) ==
    stable_trade_fee(pool,
        pool.amounts[token_index(pool, action.token_out)] - SwapY(pool, action) - 1)

\* fee_c - admin_fee_c of that swap: what the update adds to y
RetainedFee(pool, action) ==
    SwapFee(pool, action)
        - stable_admin_fee([exchange_fee |-> exchange_fee, referral_fee |-> referral_fee],
                           SwapFee(pool, action))

NewtonOutcome(r, cap, e) ==
    /\ r.rounds <= cap
    /\ IF r.ok THEN Abs(r.value - r.prev) <= 1 ELSE r.err = e

\* the reserves the operations of the scenario run compute-D on: the pool's,
\* and the pool's after each deposit or removal asked for
NewtonReserves ==
    {pools[1].amounts}
        \cup {[i \in 1..N_COINS |-> pools[1].amounts[i] + call[1][i]] : call \in StableLiquidity}
        \cup {[i \in 1..N_COINS |-> IF pools[1].amounts[i] < call[1][i] THEN 0
                                    ELSE pools[1].amounts[i] - call[1][i]] :
                 call \in StableRemovals}

\* the failure of a Newton iteration
NewtonFailed(e) == e \in {"ComputeDFailed", "ComputeYFailed"}

ByTokens(u, call) == remove_liquidity_by_tokens(pools, accounts, 0, call[1], call[2], u, 1)

\* shares the call mints to the exchange account for the admin part of the fee
ExchangeMinted == share_balance(pools'[1], EXCHANGE_ID) - share_balance(pools[1], EXCHANGE_ID)

\* the frame of a remove_liquidity_by_tokens step apart from total_shares:
\* the burn is within max_burn_shares and the caller's balance and is taken
\* from the caller, the reserves fall and the caller's ledger rises by
\* exactly amounts[i], and the other account is left alone; a failed call,
\* as when the burn exceeds max_burn_shares, changes nothing
ByTokensFrame(u, call) ==
    IF ~ByTokens(u, call).ok THEN pools' = pools /\ accounts' = accounts
    ELSE /\ ByTokens(u, call).burn_shares <= call[2]
         /\ ByTokens(u, call).burn_shares <= share_balance(pools[1], u)
         /\ pools'[1].shares[u] = pools[1].shares[u] - ByTokens(u, call).burn_shares
         /\ \A i \in 1..N_COINS :
               /\ pools'[1].amounts[i] = pools[1].amounts[i] - call[1][i]
               /\ accounts'[u].tokens[pools[1].token_account_ids[i]]
                     = accounts[u].tokens[pools[1].token_account_ids[i]] + call[1][i]
         /\ \A v \in Users \ {u} :
               accounts'[v] = accounts[v] /\ pools'[1].shares[v] = pools[1].shares[v]

\* C27 as stated: a successful remove_liquidity_by_tokens burns from the
\* caller a number of shares within max_burn_shares and the caller's balance,
\* lowers total_shares by that number and returns it, and credits the ledger
\* with exactly amounts[i]; a call whose burn exceeds max_burn_shares fails
\* and changes nothing.
TokensRemoved ==
    [][\A u \in Users, call \in FeeRemovals :
          RemoveLiquidityByTokens(u, 0, call[1], call[2]) =>
              /\ ByTokensFrame(u, call)
              /\ ByTokens(u, call).ok =>
                    pools'[1].shares_total_supply
                        = pools[1].shares_total_supply - ByTokens(u, call).burn_shares
      ]_vars

\* C27, amended: as stated, except that total_shares falls by the number
\* returned less the shares the same call mints to the exchange account for
\* the admin part of the fee.
TokensRemovedAdminFee ==
    [][\A u \in Users, call \in FeeRemovals :
          RemoveLiquidityByTokens(u, 0, call[1], call[2]) =>
              /\ ByTokensFrame(u, call)
              /\ ByTokens(u, call).ok =>
                    /\ ExchangeMinted >= 0
                    /\ pools'[1].shares_total_supply
                          = pools[1].shares_total_supply
                              - ByTokens(u, call).burn_shares + ExchangeMinted
      ]_vars

\* C27 is exercised: u1 added 90 A and 90 B and took 63 A out again; 86 of
\* its 180 shares were burnt, one share went to the exchange, and the same
\* removal with max_burn_shares = 50 is refused
TokensRemovedAdminFeeReached ==
    /\ pools[1].amounts = <<27, 90>>
    /\ pools[1].shares["u1"] = 94
    /\ pools[1].shares[EXCHANGE_ID] = 1
    /\ pools[1].shares_total_supply = 95
    /\ accounts["u1"].tokens["A"] = 63
    /\ accounts["u1"].tokens["B"] = 0

----------------------------------------------------------------------------
(* Properties of the callers (SpecCallers) *)

\* the step takes some token out of the ledger of account v
Debited(v) == \E t \in Tokens : accounts'[v].tokens[t] < accounts[v].tokens[t]

\* C31: the ledger of an account is debited only by a request whose
\* predecessor was that account: an execute_actions call debits nobody but
\* its predecessor, whatever its sender_id argument, and the callback of a
\* swap request debits nobody but the account that sent the request.
CallerAuthorization ==
    [][/\ \A predecessor_id \in Users, actions \in CallerRequests, sender_id \in Users :
             ExecuteActionsBy(predecessor_id, actions, None, sender_id) =>
                 \A v \in Users \ {predecessor_id} : ~Debited(v)
       /\ \A operation \in pending, promise_result \in AmlResults :
             CallbackAmlOperation(operation, promise_result) =>
                 \A v \in Users \ {operation.sender_id} : ~Debited(v)
      ]_vars

\* the part of C31 that the swap entry point keeps: the callback of a swap
\* request debits nobody but the predecessor of the request, and a withdrawal
\* nobody but the account that withdraws
SwapCallerAuthorization ==
    [][/\ \A operation \in pending, promise_result \in AmlResults :
             CallbackAmlOperation(operation, promise_result) =>
                 \A v \in Users \ {operation.sender_id} : ~Debited(v)
       /\ \A u \in Users, t \in PoolTokens :
             Withdraw(u, t) => \A v \in Users \ {u} : ~Debited(v)
      ]_vars

----------------------------------------------------------------------------
(* Properties of callbacks on a paused contract (SpecAdmin) *)

\* C32: the callback of a request that was accepted while the contract was
\* running and that runs after the contract was paused changes no pool, no
\* share balance and no ledger balance.
PausedCallbackInert ==
    [][\A operation \in pending, promise_result \in AmlResults :
          (state = "Paused" /\ CallbackAmlOperation(operation, promise_result)) =>
              (pools' = pools /\ accounts' = accounts)
      ]_vars

\* the part of C32 that execute_actions keeps: on a paused contract the
\* callback of a swap request changes neither pools nor ledger
PausedSwapCallbackInert ==
    [][\A operation \in pending, promise_result \in AmlResults :
          (/\ state = "Paused"
           /\ operation.op = "Swap"
           /\ CallbackAmlOperation(operation, promise_result)) =>
              (pools' = pools /\ accounts' = accounts)
      ]_vars

----------------------------------------------------------------------------
(* Properties of several pending requests of one account (SpecPending) *)

\* what the callback of the operation would take from the sender's ledger of
\* token t, given the pools as they are now: the amount_in of a swap, the
\* balanced amount of an add_liquidity
Needed(operation, t) ==
    IF operation.op = "Swap"
    THEN IF operation.actions[1].token_in = t THEN operation.actions[1].amount_in ELSE 0
    ELSE IF token_index(pools[operation.pool_id + 1], t) = 0 THEN 0
    ELSE pool_add_liquidity(pools[operation.pool_id + 1], operation.sender_id,
                            operation.amounts).amounts[
             token_index(pools[operation.pool_id + 1], t)]

\* the operation asks for more of some token than its sender holds now
Overdraws(operation) ==
    \E t \in PoolTokens : Needed(operation, t) > accounts[operation.sender_id].tokens[t]

\* the callback applied the operation to the balances and reserves it found:
\* the sender's ledger of each token went down by what the operation needed
\* and up by what the swap paid out of the pool, and the pool took the rest
AppliedNow(operation) ==
    \A t \in PoolTokens :
        /\ accounts[operation.sender_id].tokens[t] >= Needed(operation, t)
        /\ accounts'[operation.sender_id].tokens[t]
              >= accounts[operation.sender_id].tokens[t] - Needed(operation, t)
        /\ Reserve(pools'[1], t) - Reserve(pools[1], t)
              = accounts[operation.sender_id].tokens[t]
                    - accounts'[operation.sender_id].tokens[t]

\* C33: with several requests of one account pending, each callback works on
\* the ledger and the reserves as they are when it runs: a callback whose
\* operation would overdraw the ledger changes nothing, one that changes the
\* state debits no more than the balance it found, and under every order of
\* the callbacks and withdrawals no ledger balance is negative and, for every
\* token, ledger balances plus reserves equal deposits minus withdrawals.
NoDoubleSpend ==
    /\ [](\A u \in Users, t \in Tokens : accounts[u].tokens[t] >= 0)
    /\ [](\A t \in Tokens :
            LedgerTotal(accounts, t) + ReserveTotal(pools, t)
                = deposited[t] - withdrawn[t])
    /\ [][\A operation \in pending, promise_result \in AmlResults :
            CallbackPending(operation, promise_result) =>
                /\ Overdraws(operation) => (pools' = pools /\ accounts' = accounts)
                /\ (pools' # pools \/ accounts' # accounts) => AppliedNow(operation)
        ]_vars

\* C33 is exercised: two swaps of A were pending that together asked for more
\* than the account held; the callback of the first took 3 A into the pool,
\* and the callback of the second found 1 A for the 2 it asked and panicked
NoDoubleSpendReached ==
    /\ pending = {}
    /\ last.op = "callback_aml_operation"
    /\ last.operation.op = "Swap"
    /\ last.operation.actions[1].amount_in = 2
    /\ ~last.ok
    /\ last.err = "ERR22_NOT_ENOUGH_TOKENS"
    /\ accounts["u2"].tokens["A"] = 1
    /\ withdrawn["A"] = 0
    /\ pools[1].amounts[1] = 7

====
